---- MODULE Spec2Model ----
(***************************************************************************)
(* Model of the Stripe checkout adapter of src/server.js (the current      *)
(* revision, lines 85-555): startup, Express routing, the                   *)
(* create-checkout-session and verify-session handlers with their awaits   *)
(* on the payment processor, the landing pages, the 404 handler and the    *)
(* error handler; and of its earlier revisions, src/unnamed/part_000       *)
(* (the Draft definitions and SpecDraft) and src/server.js lines 1-83      *)
(* (the Intent definitions and SpecIntent).                                *)
(*                                                                         *)
(* JavaScript strings are sequences of characters, one Unicode code point  *)
(* each (a one-character string, or \u{n} beyond printable ASCII), so that *)
(* parseFloat, toLowerCase and template literals are modelled by what      *)
(* they do.  JavaScript numbers are decimal literals m * 10^e; the         *)
(* IEEE-754 double arithmetic of `numAmount * 100` is computed exactly     *)
(* with multi-limb integers.  Mantissas and finite values stay below 2^31. *)
(***************************************************************************)
EXTENDS Integers, Sequences, FiniteSets, TLC

VARIABLES phase, exitCode, env, reqs, sessions

vars == <<phase, exitCode, env, reqs, sessions>>

(***************************************************************************)
(* Bounds of the model.                                                    *)
(***************************************************************************)
\* The requests the concurrent specification takes.
MaxRequests == 2

\* The requests the specification of every request takes.
MaxAnyRequests == 1

\* The requests the specification of amounts takes.
MaxAmountRequests == 2

\* The amounts of that specification run up to this many cents and a half.
MaxCents == 20

\* The requests the specification of the earlier revision takes.
MaxDraftRequests == 2

\* The requests the specification of the payment-intent revision takes.
MaxIntentRequests == 2

(***************************************************************************)
(* Characters and strings.                                                 *)
(***************************************************************************)
DigitChars == <<"0", "1", "2", "3", "4", "5", "6", "7", "8", "9">>

IsDigit(c) == \E i \in 1..10 : DigitChars[i] = c

RECURSIVE Pow(_, _)
Pow(b, n) == IF n <= 0 THEN 1 ELSE b * Pow(b, n - 1)

\* The character of a code point; a character that a string of the model
\* cannot hold is written \u{n}, n its code point in decimal.
CharOfCode(n) ==
    IF n >= 32 /\ n <= 95
    THEN SubSeq(" !\"#$%&'()*+,-./0123456789:;<=>?@ABCDEFGHIJKLMNOPQRSTUVWXYZ[\\]^_",
                n - 31, n - 31)
    ELSE IF n >= 97 /\ n <= 126
    THEN SubSeq("abcdefghijklmnopqrstuvwxyz{|}~", n - 96, n - 96)
    ELSE CASE n = 9 -> "\t"
           [] n = 10 -> "\n"
           [] n = 11 -> ""
           [] n = 12 -> "\f"
           [] n = 13 -> "\r"
           [] OTHER -> "\\u{" \o ToString(n) \o "}"

\* The white space parseFloat and Number skip (StrWhiteSpaceChar): tab, line
\* feed, vertical tab, form feed, carriage return, the space separators of
\* Unicode (U+0020, U+00A0, U+1680, U+2000 to U+200A, U+202F, U+205F,
\* U+3000), the line and paragraph separators and U+FEFF.
IsWhiteSpace(c) ==
    c \in {CharOfCode(n) : n \in {9, 10, 11, 12, 13, 32, 160, 5760, 8232, 8233, 8239,
                                  8287, 12288, 65279} \cup 8192..8202}

\* The characters of a string of the model.
Chars(seg) == [i \in 1..Len(seg) |-> SubSeq(seg, i, i)]

\* The string made of the given characters.
RECURSIVE Join(_)
Join(cs) == IF cs = <<>> THEN "" ELSE Head(cs) \o Join(Tail(cs))

HasPrefixAt(s, i, p) ==
    /\ i + Len(p) - 1 <= Len(s)
    /\ \A j \in 1..Len(p) : s[i + j - 1] = p[j]

(***************************************************************************)
(* Natural numbers of any size, as little-endian sequences of limbs, for   *)
(* the exact arithmetic behind IEEE-754 doubles.                           *)
(***************************************************************************)
LimbBase == Pow(2, 15)

RECURSIVE BigTrim(_)
BigTrim(a) ==
    IF a # <<>> /\ a[Len(a)] = 0 THEN BigTrim(SubSeq(a, 1, Len(a) - 1)) ELSE a

BigOfNat(n) ==
    BigTrim(<<n % LimbBase, (n \div LimbBase) % LimbBase, n \div (LimbBase * LimbBase)>>)

\* a + b: limb i takes a carry when an earlier limb overflows and every limb
\* between passes the carry on.
BigAdd(a, b) ==
    IF a = <<>> THEN b
    ELSE IF b = <<>> THEN a
    ELSE
    LET n == (IF Len(a) > Len(b) THEN Len(a) ELSE Len(b)) + 1
        sum == <<>> \o [i \in 1..n |-> (IF i <= Len(a) THEN a[i] ELSE 0)
                                       + (IF i <= Len(b) THEN b[i] ELSE 0)]
    IN BigTrim(<<>> \o [i \in 1..n |->
                  (sum[i] + (IF \E j \in 1..(i - 1) :
                                  /\ sum[j] >= LimbBase
                                  /\ \A l \in (j + 1)..(i - 1) : sum[l] >= LimbBase - 1
                             THEN 1 ELSE 0)) % LimbBase])

\* a * k + c, for 0 <= k <= LimbBase and 0 <= c < LimbBase.
RECURSIVE BigMulAdd(_, _, _)
BigMulAdd(a, k, c) ==
    IF a = <<>> THEN (IF c = 0 THEN <<>> ELSE <<c>>)
    ELSE LET t == Head(a) * k + c
         IN <<t % LimbBase>> \o BigMulAdd(Tail(a), k, t \div LimbBase)

\* Quotient and remainder of a by k, for 0 < k <= LimbBase.
RECURSIVE BigDivSmall(_, _)
BigDivSmall(a, k) ==
    IF a = <<>> THEN [q |-> <<>>, r |-> 0]
    ELSE LET hi == BigDivSmall(Tail(a), k)
             t == hi.r * LimbBase + Head(a)
         IN [q |-> <<t \div k>> \o hi.q, r |-> t % k]

BigShiftLeft(a, n) ==
    BigTrim([i \in 1..(n \div 15) |-> 0] \o BigMulAdd(a, Pow(2, n % 15), 0))

\* floor(a / 2^n), and whether the division was exact.
BigShiftRight(a, n) ==
    LET w == n \div 15
        low == SubSeq(a, 1, IF w < Len(a) THEN w ELSE Len(a))
        d == BigDivSmall(SubSeq(a, w + 1, Len(a)), Pow(2, n % 15))
    IN [q |-> BigTrim(d.q), exact |-> d.r = 0 /\ \A i \in 1..Len(low) : low[i] = 0]

RECURSIVE BitLen(_)
BitLen(n) == IF n = 0 THEN 0 ELSE 1 + BitLen(n \div 2)

BigIsOdd(a) == a # <<>> /\ a[1] % 2 = 1

RECURSIVE BigToNat(_)
BigToNat(a) == IF a = <<>> THEN 0 ELSE Head(a) + LimbBase * BigToNat(Tail(a))

\* a / 10^f, floored, and whether the division was exact.
RECURSIVE BigDivPow10(_, _)
BigDivPow10(a, f) ==
    IF f = 0 THEN [q |-> a, exact |-> TRUE]
    ELSE LET d == BigDivSmall(a, 10)
             rest == BigDivPow10(d.q, f - 1)
         IN [q |-> rest.q, exact |-> rest.exact /\ d.r = 0]

\* a * b, b split into its low and high limbs.
RECURSIVE BigMul(_, _)
BigMul(a, b) ==
    IF a = <<>> \/ b = <<>> THEN <<>>
    ELSE IF Len(b) = 1 THEN BigMulAdd(a, b[1], 0)
    ELSE LET h == Len(b) \div 2
         IN BigAdd(BigMul(a, SubSeq(b, 1, h)),
                   [i \in 1..h |-> 0] \o BigMul(a, SubSeq(b, h + 1, Len(b))))

\* 5^f
RECURSIVE BigPow5(_)
BigPow5(f) ==
    IF f <= 6 THEN <<Pow(5, f)>>
    ELSE BigMul(BigPow5(f \div 2), BigPow5(f - f \div 2))

\* The integer nearest to a / (2 * b) among lo..hi, for a quotient that is
\* no integer and a half: the least n with a < (2 * n + 1) * b.
RECURSIVE NearestQuotient(_, _, _, _)
NearestQuotient(a, b, lo, hi) ==
    IF lo >= hi THEN lo
    ELSE LET mid == lo + (hi - lo) \div 2
             c == BigMul(b, BigMulAdd(BigOfNat(mid), 2, 1))
             less == \/ Len(a) < Len(c)
                     \/ /\ Len(a) = Len(c)
                        /\ \E i \in 1..Len(a) :
                             /\ a[i] < c[i]
                             /\ \A j \in (i + 1)..Len(a) : a[j] = c[j]
         IN IF less THEN NearestQuotient(a, b, lo, mid)
            ELSE NearestQuotient(a, b, mid + 1, hi)

(***************************************************************************)
(* JavaScript numbers: NaN, +-Infinity, or the finite decimal              *)
(* (-1)^neg * m * 10^e in canonical form (e <= 0, and m has no trailing    *)
(* zero when e < 0).  A decimal beyond the range of a double is Infinity   *)
(* or zero, as it is for JSON.parse and parseFloat, and one among the      *)
(* smallest doubles, where neighbours lie 2^-1074 apart, is the shortest   *)
(* decimal that denotes the double nearest to it.                          *)
(***************************************************************************)
NaN == [k |-> "nan", neg |-> FALSE, m |-> 0, e |-> 0]

Infinity(neg) == [k |-> "inf", neg |-> neg, m |-> 0, e |-> 0]

\* The number of decimal digits of m > 0.
RECURSIVE NatDigits(_)
NatDigits(m) == IF m < 10 THEN 1 ELSE 1 + NatDigits(m \div 10)

\* The decimal order of m * 10^e: 10^(n-1) <= m * 10^e < 10^n.
Magnitude(m, e) == NatDigits(m) + e

\* The first nine digits of m, m taken to be followed by zeros.
LeadingDigits(m) ==
    LET k == NatDigits(m)
    IN IF k >= 9 THEN m \div Pow(10, k - 9) ELSE m * Pow(10, 9 - k)

\* The double nearest to m * 10^e, in units of 2^-1074, the distance between
\* doubles below 2^-1021; for e < 0 and fewer than 2^29 units.  The quotient
\* m * 2^(1075 + e) / (2 * 5^-e) is no integer and a half: the dividend is
\* even and an odd multiple of the divisor is odd.
SubnormalUnits(m, e) ==
    NearestQuotient(BigShiftLeft(BigOfNat(m), 1075 + e), BigPow5(-e), 0, Pow(2, 29))

\* The integer s for which s * 10^j is nearest to units * 2^-1074, for
\* -1073 < j < 0: the quotient units * 5^-j / (2 * 2^(1073 + j)).
NearestDecimal(units, j) ==
    NearestQuotient(BigMul(BigPow5(-j), BigOfNat(units)), BigShiftLeft(<<1>>, 1073 + j),
                    0, Pow(2, 30) - 1 + Pow(2, 30))

\* The double units * 2^-1074 with the sign given, as the shortest decimal
\* that denotes it, which is the one Number::toString writes: the largest
\* exponent, from j on, at which the decimal nearest to the double still
\* rounds to it (the one at j does).
RECURSIVE ShortestSubnormal(_, _, _)
ShortestSubnormal(neg, units, j) ==
    IF units = 0 THEN [k |-> "fin", neg |-> neg, m |-> 0, e |-> 0]
    ELSE IF /\ NearestDecimal(units, j + 1) > 0
            /\ SubnormalUnits(NearestDecimal(units, j + 1), j + 1) = units
    THEN ShortestSubnormal(neg, units, j + 1)
    ELSE [k |-> "fin", neg |-> neg, m |-> NearestDecimal(units, j), e |-> j]

\* The canonical form of the double nearest to m * 10^e, m > 0.  A decimal
\* of up to nine digits is itself the shortest decimal of its double unless
\* its last digit counts less than 10^-323.
RECURSIVE Normalised(_, _, _)
Normalised(neg, m, e) ==
    IF e > 0 THEN Normalised(neg, m * 10, e - 1)
    ELSE IF e < 0 /\ m % 10 = 0 THEN Normalised(neg, m \div 10, e + 1)
    ELSE IF e > -324 THEN [k |-> "fin", neg |-> neg, m |-> m, e |-> e]
    ELSE ShortestSubnormal(neg, SubnormalUnits(m, e), e)

\* The number (-1)^neg * m * 10^e.  It rounds to Infinity from
\* 2^1024 - 2^970 on, which is 1.7976931348623158...e308, and to zero up to
\* 2^-1075, which is 2.4703282292062327...e-324.
Canonical(neg, m, e) ==
    IF m = 0 THEN [k |-> "fin", neg |-> neg, m |-> 0, e |-> 0]
    ELSE IF \/ Magnitude(m, e) > 309
            \/ /\ Magnitude(m, e) = 309
               /\ \/ LeadingDigits(m) > 179769313
                  \/ LeadingDigits(m) = 179769313 /\ NatDigits(m) >= 10 /\ m % 10 >= 5
    THEN Infinity(neg)
    ELSE IF \/ Magnitude(m, e) < -323
            \/ Magnitude(m, e) = -323 /\ LeadingDigits(m) <= 247032822
    THEN [k |-> "fin", neg |-> neg, m |-> 0, e |-> 0]
    ELSE Normalised(neg, m, e)

\* The number written as the decimal literal m * 10^e (m may be negative).
Dec(m, e) == IF m < 0 THEN Canonical(TRUE, -m, e) ELSE Canonical(FALSE, m, e)

IsNaN(x) == x.k = "nan"

\* x <= 0 on numbers (false for NaN).
LeqZero(x) ==
    \/ x.k = "inf" /\ x.neg
    \/ x.k = "fin" /\ (x.neg \/ x.m = 0)

(***************************************************************************)
(* JavaScript values as they arrive in a parsed JSON body, a header or an  *)
(* environment variable.                                                   *)
(***************************************************************************)
Undefined == [t |-> "undefined", num |-> NaN, s |-> <<>>, b |-> FALSE]

Null == [t |-> "null", num |-> NaN, s |-> <<>>, b |-> FALSE]

Str(s) == [t |-> "string", num |-> NaN, s |-> s, b |-> FALSE]

Num(m, e) == [t |-> "number", num |-> Dec(m, e), s |-> <<>>, b |-> FALSE]

Bool(b) == [t |-> "boolean", num |-> NaN, s |-> <<>>, b |-> b]

\* ToBoolean: what `!v` and `v || w` test.
Truthy(v) ==
    CASE v.t = "undefined" -> FALSE
      [] v.t = "null" -> FALSE
      [] v.t = "boolean" -> v.b
      [] v.t = "string" -> Len(v.s) > 0
      [] v.t = "number" -> ~(v.num.k = "nan" \/ (v.num.k = "fin" /\ v.num.m = 0))

\* a || b
Or(a, b) == IF Truthy(a) THEN a ELSE b

\* A value as res.json writes it (JSON.stringify): a number that is not
\* finite is written null and -0 is written 0; a property whose value is
\* undefined is left out by the object that holds it.
JsonValue(v) ==
    IF v.t # "number" THEN v
    ELSE IF v.num.k # "fin" THEN Null
    ELSE IF v.num.m = 0 THEN [v EXCEPT !.num.neg = FALSE]
    ELSE v

RECURSIVE NatToChars(_)
NatToChars(n) ==
    IF n < 10 THEN <<DigitChars[n + 1]>>
    ELSE NatToChars(n \div 10) \o <<DigitChars[(n % 10) + 1]>>

\* Number::toString: decimal notation from 1e-6 on, exponent notation below
\* (the numbers of the model stay below 1e21).
NumberToString(x) ==
    IF x.k = "nan" THEN <<"N", "a", "N">>
    ELSE IF x.k = "inf"
    THEN (IF x.neg THEN <<"-">> ELSE <<>>) \o <<"I", "n", "f", "i", "n", "i", "t", "y">>
    ELSE LET ds == NatToChars(x.m)
             f == -x.e
             n == Len(ds) - f
             body == IF f = 0 THEN ds
                     ELSE IF n > 0
                     THEN SubSeq(ds, 1, n) \o <<".">> \o SubSeq(ds, n + 1, Len(ds))
                     ELSE IF n > -6
                     THEN <<"0", ".">> \o [z \in 1..(-n) |-> "0"] \o ds
                     ELSE <<ds[1]>>
                          \o (IF Len(ds) > 1 THEN <<".">> \o Tail(ds) ELSE <<>>)
                          \o <<"e", "-">> \o NatToChars(1 - n)
         IN (IF x.neg /\ x.m # 0 THEN <<"-">> ELSE <<>>) \o body

\* ToString, as applied by parseFloat and by template literals.
JSToString(v) ==
    CASE v.t = "undefined" -> <<"u", "n", "d", "e", "f", "i", "n", "e", "d">>
      [] v.t = "null" -> <<"n", "u", "l", "l">>
      [] v.t = "boolean" -> IF v.b THEN <<"t", "r", "u", "e">>
                                   ELSE <<"f", "a", "l", "s", "e">>
      [] v.t = "string" -> v.s
      [] v.t = "number" -> NumberToString(v.num)

(***************************************************************************)
(* parseFloat: skip leading white space, then take the longest prefix      *)
(* that is a StrDecimalLiteral; NaN when there is none.                    *)
(***************************************************************************)
\* The least of a set of indices, or otherwise when the set is empty.
First(indices, otherwise) ==
    IF indices = {} THEN otherwise
    ELSE CHOOSE j \in indices : \A k \in indices : j <= k

\* The index of the first character from s[i] on that is not white space.
SkipWhiteSpace(s, i) ==
    First({j \in i..Len(s) : ~IsWhiteSpace(s[j])}, IF i > Len(s) THEN i ELSE Len(s) + 1)

\* The index of the first character from s[i] on that is not a digit.
DigitsEnd(s, i) ==
    First({j \in i..Len(s) : ~IsDigit(s[j])}, IF i > Len(s) THEN i ELSE Len(s) + 1)

\* The value of the digits s[i..j-1] written after digits of value acc;
\* leading zeros add nothing.
RECURSIVE DigitsValueAfter(_, _, _, _)
DigitsValueAfter(acc, s, i, j) ==
    IF j <= i THEN acc
    ELSE IF acc = 0 /\ s[i] = "0"
    THEN DigitsValueAfter(0, s, First({k \in i..(j - 1) : s[k] # "0"}, j), j)
    ELSE DigitsValueAfter(acc * 10 + ((CHOOSE d \in 1..10 : DigitChars[d] = s[i]) - 1), s, i + 1, j)

\* The value of the digits s[i..j-1].
DigitsValue(s, i, j) == DigitsValueAfter(0, s, i, j)

\* The StrDecimalLiteral at s[i0] whose integer digits end before s[i2] and
\* whose fraction digits, if any, end before s[i3]: its value (NaN when
\* there is no digit) and the index after it, the exponent included when it
\* has a digit.
ScanExponent(s, i0, i2, i3) ==
    LET neg == i0 <= Len(s) /\ s[i0] = "-"
        i1 == IF i0 <= Len(s) /\ s[i0] \in {"+", "-"} THEN i0 + 1 ELSE i0
        hasDot == i2 <= Len(s) /\ s[i2] = "."
        nInt == i2 - i1
        nFrac == IF hasDot THEN i3 - (i2 + 1) ELSE 0
        iM == IF nFrac > 0 \/ (hasDot /\ nInt > 0) THEN i3 ELSE i2
        hasE == iM <= Len(s) /\ s[iM] \in {"e", "E"}
        iS == iM + 1
        eNeg == hasE /\ iS <= Len(s) /\ s[iS] = "-"
        iE == IF hasE /\ iS <= Len(s) /\ s[iS] \in {"+", "-"} THEN iS + 1 ELSE iS
        iX == IF hasE THEN DigitsEnd(s, iE) ELSE iE
        expVal == IF hasE /\ iX > iE
                  THEN (IF eNeg THEN -1 ELSE 1) * DigitsValue(s, iE, iX)
                  ELSE 0
        mant == IF nFrac > 0
                THEN DigitsValueAfter(DigitsValue(s, i1, i2), s, i2 + 1, i3)
                ELSE DigitsValue(s, i1, i2)
    IN IF HasPrefixAt(s, i1, <<"I", "n", "f", "i", "n", "i", "t", "y">>)
       THEN [num |-> Infinity(neg), end |-> i1 + 8]
       ELSE IF nInt = 0 /\ nFrac = 0 THEN [num |-> NaN, end |-> i0]
       ELSE [num |-> Canonical(neg, mant, expVal - nFrac),
             end |-> IF hasE /\ iX > iE THEN iX ELSE iM]

\* The same, the fraction digits being those after a dot at s[i2].
ScanFraction(s, i0, i2) ==
    ScanExponent(s, i0, i2,
                 IF i2 <= Len(s) /\ s[i2] = "." THEN DigitsEnd(s, i2 + 1) ELSE i2)

\* The longest StrDecimalLiteral of s that starts at s[i0]: its value (NaN
\* when there is none) and the index after it.  The integer digits are those
\* after the sign, if any.
ScanDecimal(s, i0) ==
    ScanFraction(s, i0,
                 DigitsEnd(s, IF i0 <= Len(s) /\ s[i0] \in {"+", "-"} THEN i0 + 1
                              ELSE i0))

ParseFloatString(s) == ScanDecimal(s, SkipWhiteSpace(s, 1)).num

\* parseFloat(v) = parse of ToString(v).
ParseFloat(v) == ParseFloatString(JSToString(v))

(***************************************************************************)
(* String.prototype.toLowerCase, as Unicode defines it.                    *)
(***************************************************************************)
\* The code point of a character.
CodeOfChar(c) ==
    IF Len(c) = 1 THEN CHOOSE n \in 9..126 : CharOfCode(n) = c
    ELSE DigitsValue(Chars(c), 4, Len(c))

\* The simple lower case mappings of Unicode 17, which toLowerCase applies
\* (U+0130 apart, which LowerChar maps to two characters):
\* <<first, last, step, delta>> maps the code points first, first + step, ...
\* up to last to themselves plus delta; no two of the ranges overlap.
LowerCaseRanges ==
    { <<65, 90, 1, 32>>, <<192, 214, 1, 32>>, <<216, 222, 1, 32>>,
      <<256, 302, 2, 1>>, <<306, 310, 2, 1>>, <<313, 327, 2, 1>>,
      <<330, 374, 2, 1>>, <<376, 376, 1, -121>>, <<377, 381, 2, 1>>,
      <<385, 385, 1, 210>>, <<386, 388, 2, 1>>, <<390, 390, 1, 206>>,
      <<391, 391, 1, 1>>, <<393, 394, 1, 205>>, <<395, 395, 1, 1>>,
      <<398, 398, 1, 79>>, <<399, 399, 1, 202>>, <<400, 400, 1, 203>>,
      <<401, 401, 1, 1>>, <<403, 403, 1, 205>>, <<404, 404, 1, 207>>,
      <<406, 406, 1, 211>>, <<407, 407, 1, 209>>, <<408, 408, 1, 1>>,
      <<412, 412, 1, 211>>, <<413, 413, 1, 213>>, <<415, 415, 1, 214>>,
      <<416, 420, 2, 1>>, <<422, 422, 1, 218>>, <<423, 423, 1, 1>>,
      <<425, 425, 1, 218>>, <<428, 428, 1, 1>>, <<430, 430, 1, 218>>,
      <<431, 431, 1, 1>>, <<433, 434, 1, 217>>, <<435, 437, 2, 1>>,
      <<439, 439, 1, 219>>, <<440, 440, 1, 1>>, <<444, 444, 1, 1>>,
      <<452, 452, 1, 2>>, <<453, 453, 1, 1>>, <<455, 455, 1, 2>>,
      <<456, 456, 1, 1>>, <<458, 458, 1, 2>>, <<459, 475, 2, 1>>,
      <<478, 494, 2, 1>>, <<497, 497, 1, 2>>, <<498, 500, 2, 1>>,
      <<502, 502, 1, -97>>, <<503, 503, 1, -56>>, <<504, 542, 2, 1>>,
      <<544, 544, 1, -130>>, <<546, 562, 2, 1>>, <<570, 570, 1, 10795>>,
      <<571, 571, 1, 1>>, <<573, 573, 1, -163>>, <<574, 574, 1, 10792>>,
      <<577, 577, 1, 1>>, <<579, 579, 1, -195>>, <<580, 580, 1, 69>>,
      <<581, 581, 1, 71>>, <<582, 590, 2, 1>>, <<880, 882, 2, 1>>,
      <<886, 886, 1, 1>>, <<895, 895, 1, 116>>, <<902, 902, 1, 38>>,
      <<904, 906, 1, 37>>, <<908, 908, 1, 64>>, <<910, 911, 1, 63>>,
      <<913, 929, 1, 32>>, <<931, 939, 1, 32>>, <<975, 975, 1, 8>>,
      <<984, 1006, 2, 1>>, <<1012, 1012, 1, -60>>, <<1015, 1015, 1, 1>>,
      <<1017, 1017, 1, -7>>, <<1018, 1018, 1, 1>>, <<1021, 1023, 1, -130>>,
      <<1024, 1039, 1, 80>>, <<1040, 1071, 1, 32>>, <<1120, 1152, 2, 1>>,
      <<1162, 1214, 2, 1>>, <<1216, 1216, 1, 15>>, <<1217, 1229, 2, 1>>,
      <<1232, 1326, 2, 1>>, <<1329, 1366, 1, 48>>, <<4256, 4293, 1, 7264>>,
      <<4295, 4295, 1, 7264>>, <<4301, 4301, 1, 7264>>,
      <<5024, 5103, 1, 38864>>, <<5104, 5109, 1, 8>>, <<7305, 7305, 1, 1>>,
      <<7312, 7354, 1, -3008>>, <<7357, 7359, 1, -3008>>,
      <<7680, 7828, 2, 1>>, <<7838, 7838, 1, -7615>>, <<7840, 7934, 2, 1>>,
      <<7944, 7951, 1, -8>>, <<7960, 7965, 1, -8>>, <<7976, 7983, 1, -8>>,
      <<7992, 7999, 1, -8>>, <<8008, 8013, 1, -8>>, <<8025, 8031, 2, -8>>,
      <<8040, 8047, 1, -8>>, <<8072, 8079, 1, -8>>, <<8088, 8095, 1, -8>>,
      <<8104, 8111, 1, -8>>, <<8120, 8121, 1, -8>>, <<8122, 8123, 1, -74>>,
      <<8124, 8124, 1, -9>>, <<8136, 8139, 1, -86>>, <<8140, 8140, 1, -9>>,
      <<8152, 8153, 1, -8>>, <<8154, 8155, 1, -100>>, <<8168, 8169, 1, -8>>,
      <<8170, 8171, 1, -112>>, <<8172, 8172, 1, -7>>, <<8184, 8185, 1, -128>>,
      <<8186, 8187, 1, -126>>, <<8188, 8188, 1, -9>>,
      <<8486, 8486, 1, -7517>>, <<8490, 8490, 1, -8383>>,
      <<8491, 8491, 1, -8262>>, <<8498, 8498, 1, 28>>, <<8544, 8559, 1, 16>>,
      <<8579, 8579, 1, 1>>, <<9398, 9423, 1, 26>>, <<11264, 11311, 1, 48>>,
      <<11360, 11360, 1, 1>>, <<11362, 11362, 1, -10743>>,
      <<11363, 11363, 1, -3814>>, <<11364, 11364, 1, -10727>>,
      <<11367, 11371, 2, 1>>, <<11373, 11373, 1, -10780>>,
      <<11374, 11374, 1, -10749>>, <<11375, 11375, 1, -10783>>,
      <<11376, 11376, 1, -10782>>, <<11378, 11378, 1, 1>>,
      <<11381, 11381, 1, 1>>, <<11390, 11391, 1, -10815>>,
      <<11392, 11490, 2, 1>>, <<11499, 11501, 2, 1>>, <<11506, 11506, 1, 1>>,
      <<42560, 42604, 2, 1>>, <<42624, 42650, 2, 1>>, <<42786, 42798, 2, 1>>,
      <<42802, 42862, 2, 1>>, <<42873, 42875, 2, 1>>,
      <<42877, 42877, 1, -35332>>, <<42878, 42886, 2, 1>>,
      <<42891, 42891, 1, 1>>, <<42893, 42893, 1, -42280>>,
      <<42896, 42898, 2, 1>>, <<42902, 42920, 2, 1>>,
      <<42922, 42922, 1, -42308>>, <<42923, 42923, 1, -42319>>,
      <<42924, 42924, 1, -42315>>, <<42925, 42925, 1, -42305>>,
      <<42926, 42926, 1, -42308>>, <<42928, 42928, 1, -42258>>,
      <<42929, 42929, 1, -42282>>, <<42930, 42930, 1, -42261>>,
      <<42931, 42931, 1, 928>>, <<42932, 42946, 2, 1>>,
      <<42948, 42948, 1, -48>>, <<42949, 42949, 1, -42307>>,
      <<42950, 42950, 1, -35384>>, <<42951, 42953, 2, 1>>,
      <<42955, 42955, 1, -42343>>, <<42956, 42970, 2, 1>>,
      <<42972, 42972, 1, -42561>>, <<42997, 42997, 1, 1>>,
      <<65313, 65338, 1, 32>>, <<66560, 66599, 1, 40>>,
      <<66736, 66771, 1, 40>>, <<66928, 66938, 1, 39>>,
      <<66940, 66954, 1, 39>>, <<66956, 66962, 1, 39>>,
      <<66964, 66965, 1, 39>>, <<68736, 68786, 1, 64>>,
      <<68944, 68965, 1, 32>>, <<71840, 71871, 1, 32>>,
      <<93760, 93791, 1, 32>>, <<93856, 93880, 1, 27>>,
      <<125184, 125217, 1, 34>> }

\* The code points that are cased (1) or case-ignorable (2) in Unicode 17; a
\* code point that is both is case-ignorable here, as toLowerCase reads it.
CaseContextRanges ==
    { <<39, 39, 2>>, <<46, 46, 2>>, <<58, 58, 2>>, <<65, 90, 1>>,
      <<94, 94, 2>>, <<96, 96, 2>>, <<97, 122, 1>>, <<168, 168, 2>>,
      <<170, 170, 1>>, <<173, 173, 2>>, <<175, 175, 2>>, <<180, 180, 2>>,
      <<181, 181, 1>>, <<183, 184, 2>>, <<186, 186, 1>>, <<192, 214, 1>>,
      <<216, 246, 1>>, <<248, 442, 1>>, <<444, 447, 1>>, <<452, 659, 1>>,
      <<662, 687, 1>>, <<688, 879, 2>>, <<880, 883, 1>>, <<884, 885, 2>>,
      <<886, 887, 1>>, <<890, 890, 2>>, <<891, 893, 1>>, <<895, 895, 1>>,
      <<900, 901, 2>>, <<902, 902, 1>>, <<903, 903, 2>>, <<904, 906, 1>>,
      <<908, 908, 1>>, <<910, 929, 1>>, <<931, 1013, 1>>, <<1015, 1153, 1>>,
      <<1155, 1161, 2>>, <<1162, 1327, 1>>, <<1329, 1366, 1>>,
      <<1369, 1369, 2>>, <<1375, 1375, 2>>, <<1376, 1416, 1>>,
      <<1425, 1469, 2>>, <<1471, 1471, 2>>, <<1473, 1474, 2>>,
      <<1476, 1477, 2>>, <<1479, 1479, 2>>, <<1524, 1524, 2>>,
      <<1536, 1541, 2>>, <<1552, 1562, 2>>, <<1564, 1564, 2>>,
      <<1600, 1600, 2>>, <<1611, 1631, 2>>, <<1648, 1648, 2>>,
      <<1750, 1757, 2>>, <<1759, 1768, 2>>, <<1770, 1773, 2>>,
      <<1807, 1807, 2>>, <<1809, 1809, 2>>, <<1840, 1866, 2>>,
      <<1958, 1968, 2>>, <<2027, 2037, 2>>, <<2042, 2042, 2>>,
      <<2045, 2045, 2>>, <<2070, 2093, 2>>, <<2137, 2139, 2>>,
      <<2184, 2184, 2>>, <<2192, 2193, 2>>, <<2199, 2207, 2>>,
      <<2249, 2306, 2>>, <<2362, 2362, 2>>, <<2364, 2364, 2>>,
      <<2369, 2376, 2>>, <<2381, 2381, 2>>, <<2385, 2391, 2>>,
      <<2402, 2403, 2>>, <<2417, 2417, 2>>, <<2433, 2433, 2>>,
      <<2492, 2492, 2>>, <<2497, 2500, 2>>, <<2509, 2509, 2>>,
      <<2530, 2531, 2>>, <<2558, 2558, 2>>, <<2561, 2562, 2>>,
      <<2620, 2620, 2>>, <<2625, 2626, 2>>, <<2631, 2632, 2>>,
      <<2635, 2637, 2>>, <<2641, 2641, 2>>, <<2672, 2673, 2>>,
      <<2677, 2677, 2>>, <<2689, 2690, 2>>, <<2748, 2748, 2>>,
      <<2753, 2757, 2>>, <<2759, 2760, 2>>, <<2765, 2765, 2>>,
      <<2786, 2787, 2>>, <<2810, 2815, 2>>, <<2817, 2817, 2>>,
      <<2876, 2876, 2>>, <<2879, 2879, 2>>, <<2881, 2884, 2>>,
      <<2893, 2893, 2>>, <<2901, 2902, 2>>, <<2914, 2915, 2>>,
      <<2946, 2946, 2>>, <<3008, 3008, 2>>, <<3021, 3021, 2>>,
      <<3072, 3072, 2>>, <<3076, 3076, 2>>, <<3132, 3132, 2>>,
      <<3134, 3136, 2>>, <<3142, 3144, 2>>, <<3146, 3149, 2>>,
      <<3157, 3158, 2>>, <<3170, 3171, 2>>, <<3201, 3201, 2>>,
      <<3260, 3260, 2>>, <<3263, 3263, 2>>, <<3270, 3270, 2>>,
      <<3276, 3277, 2>>, <<3298, 3299, 2>>, <<3328, 3329, 2>>,
      <<3387, 3388, 2>>, <<3393, 3396, 2>>, <<3405, 3405, 2>>,
      <<3426, 3427, 2>>, <<3457, 3457, 2>>, <<3530, 3530, 2>>,
      <<3538, 3540, 2>>, <<3542, 3542, 2>>, <<3633, 3633, 2>>,
      <<3636, 3642, 2>>, <<3654, 3662, 2>>, <<3761, 3761, 2>>,
      <<3764, 3772, 2>>, <<3782, 3782, 2>>, <<3784, 3790, 2>>,
      <<3864, 3865, 2>>, <<3893, 3893, 2>>, <<3895, 3895, 2>>,
      <<3897, 3897, 2>>, <<3953, 3966, 2>>, <<3968, 3972, 2>>,
      <<3974, 3975, 2>>, <<3981, 3991, 2>>, <<3993, 4028, 2>>,
      <<4038, 4038, 2>>, <<4141, 4144, 2>>, <<4146, 4151, 2>>,
      <<4153, 4154, 2>>, <<4157, 4158, 2>>, <<4184, 4185, 2>>,
      <<4190, 4192, 2>>, <<4209, 4212, 2>>, <<4226, 4226, 2>>,
      <<4229, 4230, 2>>, <<4237, 4237, 2>>, <<4253, 4253, 2>>,
      <<4256, 4293, 1>>, <<4295, 4295, 1>>, <<4301, 4301, 1>>,
      <<4304, 4346, 1>>, <<4348, 4348, 2>>, <<4349, 4351, 1>>,
      <<4957, 4959, 2>>, <<5024, 5109, 1>>, <<5112, 5117, 1>>,
      <<5906, 5908, 2>>, <<5938, 5939, 2>>, <<5970, 5971, 2>>,
      <<6002, 6003, 2>>, <<6068, 6069, 2>>, <<6071, 6077, 2>>,
      <<6086, 6086, 2>>, <<6089, 6099, 2>>, <<6103, 6103, 2>>,
      <<6109, 6109, 2>>, <<6155, 6159, 2>>, <<6211, 6211, 2>>,
      <<6277, 6278, 2>>, <<6313, 6313, 2>>, <<6432, 6434, 2>>,
      <<6439, 6440, 2>>, <<6450, 6450, 2>>, <<6457, 6459, 2>>,
      <<6679, 6680, 2>>, <<6683, 6683, 2>>, <<6742, 6742, 2>>,
      <<6744, 6750, 2>>, <<6752, 6752, 2>>, <<6754, 6754, 2>>,
      <<6757, 6764, 2>>, <<6771, 6780, 2>>, <<6783, 6783, 2>>,
      <<6823, 6823, 2>>, <<6832, 6877, 2>>, <<6880, 6891, 2>>,
      <<6912, 6915, 2>>, <<6964, 6964, 2>>, <<6966, 6970, 2>>,
      <<6972, 6972, 2>>, <<6978, 6978, 2>>, <<7019, 7027, 2>>,
      <<7040, 7041, 2>>, <<7074, 7077, 2>>, <<7080, 7081, 2>>,
      <<7083, 7085, 2>>, <<7142, 7142, 2>>, <<7144, 7145, 2>>,
      <<7149, 7149, 2>>, <<7151, 7153, 2>>, <<7212, 7219, 2>>,
      <<7222, 7223, 2>>, <<7288, 7293, 2>>, <<7296, 7306, 1>>,
      <<7312, 7354, 1>>, <<7357, 7359, 1>>, <<7376, 7378, 2>>,
      <<7380, 7392, 2>>, <<7394, 7400, 2>>, <<7405, 7405, 2>>,
      <<7412, 7412, 2>>, <<7416, 7417, 2>>, <<7424, 7467, 1>>,
      <<7468, 7530, 2>>, <<7531, 7543, 1>>, <<7544, 7544, 2>>,
      <<7545, 7578, 1>>, <<7579, 7679, 2>>, <<7680, 7957, 1>>,
      <<7960, 7965, 1>>, <<7968, 8005, 1>>, <<8008, 8013, 1>>,
      <<8016, 8023, 1>>, <<8025, 8025, 1>>, <<8027, 8027, 1>>,
      <<8029, 8029, 1>>, <<8031, 8061, 1>>, <<8064, 8116, 1>>,
      <<8118, 8124, 1>>, <<8125, 8125, 2>>, <<8126, 8126, 1>>,
      <<8127, 8129, 2>>, <<8130, 8132, 1>>, <<8134, 8140, 1>>,
      <<8141, 8143, 2>>, <<8144, 8147, 1>>, <<8150, 8155, 1>>,
      <<8157, 8159, 2>>, <<8160, 8172, 1>>, <<8173, 8175, 2>>,
      <<8178, 8180, 1>>, <<8182, 8188, 1>>, <<8189, 8190, 2>>,
      <<8203, 8207, 2>>, <<8216, 8217, 2>>, <<8228, 8228, 2>>,
      <<8231, 8231, 2>>, <<8234, 8238, 2>>, <<8288, 8292, 2>>,
      <<8294, 8303, 2>>, <<8305, 8305, 2>>, <<8319, 8319, 2>>,
      <<8336, 8348, 2>>, <<8400, 8432, 2>>, <<8450, 8450, 1>>,
      <<8455, 8455, 1>>, <<8458, 8467, 1>>, <<8469, 8469, 1>>,
      <<8473, 8477, 1>>, <<8484, 8484, 1>>, <<8486, 8486, 1>>,
      <<8488, 8488, 1>>, <<8490, 8493, 1>>, <<8495, 8500, 1>>,
      <<8505, 8505, 1>>, <<8508, 8511, 1>>, <<8517, 8521, 1>>,
      <<8526, 8526, 1>>, <<8544, 8575, 1>>, <<8579, 8580, 1>>,
      <<9398, 9449, 1>>, <<11264, 11387, 1>>, <<11388, 11389, 2>>,
      <<11390, 11492, 1>>, <<11499, 11502, 1>>, <<11503, 11505, 2>>,
      <<11506, 11507, 1>>, <<11520, 11557, 1>>, <<11559, 11559, 1>>,
      <<11565, 11565, 1>>, <<11631, 11631, 2>>, <<11647, 11647, 2>>,
      <<11744, 11775, 2>>, <<11823, 11823, 2>>, <<12293, 12293, 2>>,
      <<12330, 12333, 2>>, <<12337, 12341, 2>>, <<12347, 12347, 2>>,
      <<12441, 12446, 2>>, <<12540, 12542, 2>>, <<40981, 40981, 2>>,
      <<42232, 42237, 2>>, <<42508, 42508, 2>>, <<42560, 42605, 1>>,
      <<42607, 42610, 2>>, <<42612, 42621, 2>>, <<42623, 42623, 2>>,
      <<42624, 42651, 1>>, <<42652, 42655, 2>>, <<42736, 42737, 2>>,
      <<42752, 42785, 2>>, <<42786, 42863, 1>>, <<42864, 42864, 2>>,
      <<42865, 42887, 1>>, <<42888, 42890, 2>>, <<42891, 42894, 1>>,
      <<42896, 42972, 1>>, <<42993, 42996, 2>>, <<42997, 42998, 1>>,
      <<43000, 43001, 2>>, <<43002, 43002, 1>>, <<43010, 43010, 2>>,
      <<43014, 43014, 2>>, <<43019, 43019, 2>>, <<43045, 43046, 2>>,
      <<43052, 43052, 2>>, <<43204, 43205, 2>>, <<43232, 43249, 2>>,
      <<43263, 43263, 2>>, <<43302, 43309, 2>>, <<43335, 43345, 2>>,
      <<43392, 43394, 2>>, <<43443, 43443, 2>>, <<43446, 43449, 2>>,
      <<43452, 43453, 2>>, <<43471, 43471, 2>>, <<43493, 43494, 2>>,
      <<43561, 43566, 2>>, <<43569, 43570, 2>>, <<43573, 43574, 2>>,
      <<43587, 43587, 2>>, <<43596, 43596, 2>>, <<43632, 43632, 2>>,
      <<43644, 43644, 2>>, <<43696, 43696, 2>>, <<43698, 43700, 2>>,
      <<43703, 43704, 2>>, <<43710, 43711, 2>>, <<43713, 43713, 2>>,
      <<43741, 43741, 2>>, <<43756, 43757, 2>>, <<43763, 43764, 2>>,
      <<43766, 43766, 2>>, <<43824, 43866, 1>>, <<43867, 43871, 2>>,
      <<43872, 43880, 1>>, <<43881, 43883, 2>>, <<43888, 43967, 1>>,
      <<44005, 44005, 2>>, <<44008, 44008, 2>>, <<44013, 44013, 2>>,
      <<64256, 64262, 1>>, <<64275, 64279, 1>>, <<64286, 64286, 2>>,
      <<64434, 64450, 2>>, <<65024, 65039, 2>>, <<65043, 65043, 2>>,
      <<65056, 65071, 2>>, <<65106, 65106, 2>>, <<65109, 65109, 2>>,
      <<65279, 65279, 2>>, <<65287, 65287, 2>>, <<65294, 65294, 2>>,
      <<65306, 65306, 2>>, <<65313, 65338, 1>>, <<65342, 65342, 2>>,
      <<65344, 65344, 2>>, <<65345, 65370, 1>>, <<65392, 65392, 2>>,
      <<65438, 65439, 2>>, <<65507, 65507, 2>>, <<65529, 65531, 2>>,
      <<66045, 66045, 2>>, <<66272, 66272, 2>>, <<66422, 66426, 2>>,
      <<66560, 66639, 1>>, <<66736, 66771, 1>>, <<66776, 66811, 1>>,
      <<66928, 66938, 1>>, <<66940, 66954, 1>>, <<66956, 66962, 1>>,
      <<66964, 66965, 1>>, <<66967, 66977, 1>>, <<66979, 66993, 1>>,
      <<66995, 67001, 1>>, <<67003, 67004, 1>>, <<67456, 67461, 2>>,
      <<67463, 67504, 2>>, <<67506, 67514, 2>>, <<68097, 68099, 2>>,
      <<68101, 68102, 2>>, <<68108, 68111, 2>>, <<68152, 68154, 2>>,
      <<68159, 68159, 2>>, <<68325, 68326, 2>>, <<68736, 68786, 1>>,
      <<68800, 68850, 1>>, <<68900, 68903, 2>>, <<68942, 68942, 2>>,
      <<68944, 68965, 1>>, <<68969, 68973, 2>>, <<68975, 68975, 2>>,
      <<68976, 68997, 1>>, <<69291, 69292, 2>>, <<69317, 69317, 2>>,
      <<69370, 69375, 2>>, <<69446, 69456, 2>>, <<69506, 69509, 2>>,
      <<69633, 69633, 2>>, <<69688, 69702, 2>>, <<69744, 69744, 2>>,
      <<69747, 69748, 2>>, <<69759, 69761, 2>>, <<69811, 69814, 2>>,
      <<69817, 69818, 2>>, <<69821, 69821, 2>>, <<69826, 69826, 2>>,
      <<69837, 69837, 2>>, <<69888, 69890, 2>>, <<69927, 69931, 2>>,
      <<69933, 69940, 2>>, <<70003, 70003, 2>>, <<70016, 70017, 2>>,
      <<70070, 70078, 2>>, <<70089, 70092, 2>>, <<70095, 70095, 2>>,
      <<70191, 70193, 2>>, <<70196, 70196, 2>>, <<70198, 70199, 2>>,
      <<70206, 70206, 2>>, <<70209, 70209, 2>>, <<70367, 70367, 2>>,
      <<70371, 70378, 2>>, <<70400, 70401, 2>>, <<70459, 70460, 2>>,
      <<70464, 70464, 2>>, <<70502, 70508, 2>>, <<70512, 70516, 2>>,
      <<70587, 70592, 2>>, <<70606, 70606, 2>>, <<70608, 70608, 2>>,
      <<70610, 70610, 2>>, <<70625, 70626, 2>>, <<70712, 70719, 2>>,
      <<70722, 70724, 2>>, <<70726, 70726, 2>>, <<70750, 70750, 2>>,
      <<70835, 70840, 2>>, <<70842, 70842, 2>>, <<70847, 70848, 2>>,
      <<70850, 70851, 2>>, <<71090, 71093, 2>>, <<71100, 71101, 2>>,
      <<71103, 71104, 2>>, <<71132, 71133, 2>>, <<71219, 71226, 2>>,
      <<71229, 71229, 2>>, <<71231, 71232, 2>>, <<71339, 71339, 2>>,
      <<71341, 71341, 2>>, <<71344, 71349, 2>>, <<71351, 71351, 2>>,
      <<71453, 71453, 2>>, <<71455, 71455, 2>>, <<71458, 71461, 2>>,
      <<71463, 71467, 2>>, <<71727, 71735, 2>>, <<71737, 71738, 2>>,
      <<71840, 71903, 1>>, <<71995, 71996, 2>>, <<71998, 71998, 2>>,
      <<72003, 72003, 2>>, <<72148, 72151, 2>>, <<72154, 72155, 2>>,
      <<72160, 72160, 2>>, <<72193, 72202, 2>>, <<72243, 72248, 2>>,
      <<72251, 72254, 2>>, <<72263, 72263, 2>>, <<72273, 72278, 2>>,
      <<72281, 72283, 2>>, <<72330, 72342, 2>>, <<72344, 72345, 2>>,
      <<72544, 72544, 2>>, <<72546, 72548, 2>>, <<72550, 72550, 2>>,
      <<72752, 72758, 2>>, <<72760, 72765, 2>>, <<72767, 72767, 2>>,
      <<72850, 72871, 2>>, <<72874, 72880, 2>>, <<72882, 72883, 2>>,
      <<72885, 72886, 2>>, <<73009, 73014, 2>>, <<73018, 73018, 2>>,
      <<73020, 73021, 2>>, <<73023, 73029, 2>>, <<73031, 73031, 2>>,
      <<73104, 73105, 2>>, <<73109, 73109, 2>>, <<73111, 73111, 2>>,
      <<73177, 73177, 2>>, <<73459, 73460, 2>>, <<73472, 73473, 2>>,
      <<73526, 73530, 2>>, <<73536, 73536, 2>>, <<73538, 73538, 2>>,
      <<73562, 73562, 2>>, <<78896, 78912, 2>>, <<78919, 78933, 2>>,
      <<90398, 90409, 2>>, <<90413, 90415, 2>>, <<92912, 92916, 2>>,
      <<92976, 92982, 2>>, <<92992, 92995, 2>>, <<93504, 93506, 2>>,
      <<93547, 93548, 2>>, <<93760, 93823, 1>>, <<93856, 93880, 1>>,
      <<93883, 93907, 1>>, <<94031, 94031, 2>>, <<94095, 94111, 2>>,
      <<94176, 94177, 2>>, <<94179, 94180, 2>>, <<94194, 94195, 2>>,
      <<110576, 110579, 2>>, <<110581, 110587, 2>>, <<110589, 110590, 2>>,
      <<113821, 113822, 2>>, <<113824, 113827, 2>>, <<118528, 118573, 2>>,
      <<118576, 118598, 2>>, <<119143, 119145, 2>>, <<119155, 119170, 2>>,
      <<119173, 119179, 2>>, <<119210, 119213, 2>>, <<119362, 119364, 2>>,
      <<119808, 119892, 1>>, <<119894, 119964, 1>>, <<119966, 119967, 1>>,
      <<119970, 119970, 1>>, <<119973, 119974, 1>>, <<119977, 119980, 1>>,
      <<119982, 119993, 1>>, <<119995, 119995, 1>>, <<119997, 120003, 1>>,
      <<120005, 120069, 1>>, <<120071, 120074, 1>>, <<120077, 120084, 1>>,
      <<120086, 120092, 1>>, <<120094, 120121, 1>>, <<120123, 120126, 1>>,
      <<120128, 120132, 1>>, <<120134, 120134, 1>>, <<120138, 120144, 1>>,
      <<120146, 120485, 1>>, <<120488, 120512, 1>>, <<120514, 120538, 1>>,
      <<120540, 120570, 1>>, <<120572, 120596, 1>>, <<120598, 120628, 1>>,
      <<120630, 120654, 1>>, <<120656, 120686, 1>>, <<120688, 120712, 1>>,
      <<120714, 120744, 1>>, <<120746, 120770, 1>>, <<120772, 120779, 1>>,
      <<121344, 121398, 2>>, <<121403, 121452, 2>>, <<121461, 121461, 2>>,
      <<121476, 121476, 2>>, <<121499, 121503, 2>>, <<121505, 121519, 2>>,
      <<122624, 122633, 1>>, <<122635, 122654, 1>>, <<122661, 122666, 1>>,
      <<122880, 122886, 2>>, <<122888, 122904, 2>>, <<122907, 122913, 2>>,
      <<122915, 122916, 2>>, <<122918, 122922, 2>>, <<122928, 122989, 2>>,
      <<123023, 123023, 2>>, <<123184, 123197, 2>>, <<123566, 123566, 2>>,
      <<123628, 123631, 2>>, <<124139, 124143, 2>>, <<124398, 124399, 2>>,
      <<124643, 124643, 2>>, <<124646, 124646, 2>>, <<124654, 124655, 2>>,
      <<124661, 124661, 2>>, <<124671, 124671, 2>>, <<125136, 125142, 2>>,
      <<125184, 125251, 1>>, <<125252, 125259, 2>>, <<127280, 127305, 1>>,
      <<127312, 127337, 1>>, <<127344, 127369, 1>>, <<127995, 127999, 2>>,
      <<917505, 917505, 2>>, <<917536, 917631, 2>>, <<917760, 917999, 2>> }

\* The lower case mapping of a code point.
LowerCode(n) ==
    LET hits == {r \in LowerCaseRanges : n >= r[1] /\ n <= r[2] /\ (n - r[1]) % r[3] = 0}
    IN IF hits = {} THEN n ELSE n + (CHOOSE r \in hits : TRUE)[4]

\* String.prototype.toLowerCase on one character out of context: U+0130
\* becomes i and U+0307, any other character its simple mapping.
LowerChar(c) ==
    IF c = CharOfCode(304) THEN <<"i", CharOfCode(775)>>
    ELSE <<CharOfCode(LowerCode(CodeOfChar(c)))>>

\* The Final_Sigma condition of Unicode's SpecialCasing on s[i]: before it a
\* cased letter and then case-ignorable characters only, and after it no
\* cased letter that only case-ignorable characters separate from it.
IsFinalSigma(s, i) ==
    LET among(j, class) ==
            \E n \in {CodeOfChar(s[j])} :
               \E r \in CaseContextRanges : r[3] = class /\ n >= r[1] /\ n <= r[2]
    IN /\ \E j \in 1..(i - 1) : among(j, 1) /\ \A l \in (j + 1)..(i - 1) : among(l, 2)
       /\ ~\E j \in (i + 1)..Len(s) :
              among(j, 1) /\ \A l \in (i + 1)..(j - 1) : among(l, 2)

\* toLowerCase from s[i] on: a capital sigma in final position becomes
\* U+03C2, any other character what it becomes out of context.
RECURSIVE LowerFrom(_, _)
LowerFrom(s, i) ==
    IF i > Len(s) THEN <<>>
    ELSE (IF s[i] = CharOfCode(931) /\ IsFinalSigma(s, i) THEN <<CharOfCode(962)>>
          ELSE LowerChar(s[i]))
         \o LowerFrom(s, i + 1)

\* String.prototype.toLowerCase.
ToLowerCase(s) == LowerFrom(s, 1)

(***************************************************************************)
(* IEEE-754 binary64.  A positive double is q * 2^x with q of at most 53   *)
(* bits; results are rounded to nearest, ties to even.                     *)
(***************************************************************************)
\* The double nearest to (a + t) * 2^x, where 0 <= t < 1 and t > 0 iff
\* sticky (a has more than 53 bits whenever sticky holds).
RoundToDouble(a, x, sticky) ==
    LET b == BigTrim(a)
        len == IF b = <<>> THEN 0 ELSE 15 * (Len(b) - 1) + BitLen(b[Len(b)])
        s == len - 53
        sh == BigShiftRight(a, s - 1)
        q == BigShiftRight(sh.q, 1).q
        up == BigIsOdd(sh.q) /\ (sticky \/ ~sh.exact \/ BigIsOdd(q))
    IN IF s <= 0 THEN [q |-> BigTrim(a), x |-> x]
       ELSE [q |-> IF up THEN BigMulAdd(q, 1, 1) ELSE q, x |-> x + s]

\* The double a numeric literal m * 10^e (m > 0, e <= 0) denotes.
ToDouble(m, e) ==
    LET f == -e
        k == 53 + 2 + 4 * f
        d == BigDivPow10(BigShiftLeft(BigOfNat(m), k), f)
    IN RoundToDouble(d.q, -k, ~d.exact)

\* d * 100 in double arithmetic.
TimesHundred(d) == RoundToDouble(BigMulAdd(d.q, 100, 0), d.x, FALSE)

\* Math.round of the double d, or of -d when neg: the nearest integer, ties
\* towards +Infinity.  The result's magnitude.
MathRound(d, neg) ==
    IF d.x >= 0 THEN BigToNat(BigShiftLeft(d.q, d.x))
    ELSE LET sh == BigShiftRight(d.q, -d.x - 1)
             up == BigShiftRight(BigMulAdd(sh.q, 1, 1), 1)
             tie == sh.exact /\ up.exact
         IN BigToNat(up.q) - (IF neg /\ tie THEN 1 ELSE 0)

\* Math.round(x * 100) for a number x.  Below 0.001 the product is below
\* 0.5 and rounds to 0.
RoundTimesHundred(x) ==
    IF x.k # "fin" THEN x
    ELSE IF x.m = 0 THEN x
    ELSE IF Magnitude(x.m, x.e) <= -3 THEN [k |-> "fin", neg |-> x.neg, m |-> 0, e |-> 0]
    ELSE [k |-> "fin", neg |-> x.neg, e |-> 0,
          m |-> MathRound(TimesHundred(ToDouble(x.m, x.e)), x.neg)]

\* n / 100 for an integer n: the double nearest to the quotient, which is
\* the double of the literal n * 10^-2.
DivHundred(n) == IF n.k = "fin" THEN Canonical(n.neg, n.m, n.e - 2) ELSE n

(***************************************************************************)
(* The process environment and the startup sequence (lines 89-99, 540-553) *)
(***************************************************************************)
\* A startup without the check of the credential.
KeyNeverMissing(e) == FALSE

\* `if (!process.env.PRIVATE_KEY)`: the startup check of the credential.
KeyMissing(e) == ~Truthy(e.PRIVATE_KEY)

\* The argument of process.exit when the credential is missing.
MissingKeyExitCode == 1

(***************************************************************************)
(* Express routing: the route table in registration order.  A path is the  *)
(* sequence of its segments ("/" is <<>>, "/health/" is <<"health", "">>), *)
(* each segment as the request line has it, percent escapes included.      *)
(***************************************************************************)
\* The path after its leading slash.
RECURSIVE JoinPath(_)
JoinPath(path) ==
    IF path = <<>> THEN ""
    ELSE IF Len(path) = 1 THEN path[1]
    ELSE path[1] \o "/" \o JoinPath(Tail(path))

\* A hexadecimal digit, in either case, and its value.
IsHex(c) ==
    \E i \in 1..16 : c \in {SubSeq("0123456789abcdef", i, i),
                             SubSeq("0123456789ABCDEF", i, i)}

HexVal(c) ==
    (CHOOSE i \in 1..16 : c \in {SubSeq("0123456789abcdef", i, i),
                                 SubSeq("0123456789ABCDEF", i, i)}) - 1

\* Whether s[i..i+2] is a percent escape, and the byte it writes.
HasByteAt(s, i) == i + 2 <= Len(s) /\ s[i] = "%" /\ IsHex(s[i + 1]) /\ IsHex(s[i + 2])

ByteAt(s, i) == 16 * HexVal(s[i + 1]) + HexVal(s[i + 2])

\* The length of the UTF-8 sequence a byte starts, 0 when it starts none.
SequenceLength(b) ==
    IF b < 128 THEN 1
    ELSE IF b >= 192 /\ b < 224 THEN 2
    ELSE IF b >= 224 /\ b < 240 THEN 3
    ELSE IF b >= 240 /\ b < 248 THEN 4
    ELSE 0

\* Whether the n - 1 escapes after the one at s[i] write continuation bytes.
WellFormedAt(s, i, n) ==
    \A k \in 1..(n - 1) :
        HasByteAt(s, i + 3 * k) /\ ByteAt(s, i + 3 * k) \in 128..191

\* The bits a leading byte of an n-byte sequence gives to the code point.
LeadBits(b, n) ==
    CASE n = 1 -> b
      [] n = 2 -> b - 192
      [] n = 3 -> b - 224
      [] n = 4 -> b - 240

\* The bits of the leading byte followed by those of k continuation bytes.
RECURSIVE SequenceValue(_, _, _, _)
SequenceValue(s, i, lead, k) ==
    IF k = 0 THEN lead
    ELSE SequenceValue(s, i, lead, k - 1) * 64 + (ByteAt(s, i + 3 * k) - 128)

\* The code point, or -1 when it is too large, a surrogate, or written with
\* more bytes than it takes.
ScalarOf(cp, n) ==
    IF /\ cp >= (CASE n = 1 -> 0 [] n = 2 -> 128 [] n = 3 -> 2048 [] n = 4 -> 65536)
       /\ cp <= 1114111
       /\ ~(cp >= 55296 /\ cp <= 57343)
    THEN cp
    ELSE -1

\* The code point of the n-byte UTF-8 sequence escaped at s[i], or -1 when
\* the sequence is not well formed.
CodePointAt(s, i, n) ==
    IF ~WellFormedAt(s, i, n) THEN -1
    ELSE ScalarOf(SequenceValue(s, i, LeadBits(ByteAt(s, i), n), n - 1), n)

RECURSIVE DecodeFrom(_, _)

\* decodeURIComponent on s from index i, where the first n characters of
\* that part are a character as it is or the escapes of the code point cp
\* (-1 when they are not well formed).
RECURSIVE DecodeStep(_, _, _, _)
DecodeStep(s, i, n, cp) ==
    IF cp = -1 THEN [ok |-> FALSE, s |-> <<>>]
    ELSE LET rest == DecodeFrom(s, i + n)
         IN IF ~rest.ok THEN rest
            ELSE [ok |-> TRUE,
                  s |-> <<IF s[i] # "%" THEN s[i] ELSE CharOfCode(cp)>> \o rest.s]

\* decodeURIComponent on s from index i: the decoded characters, or not ok
\* where it throws a URIError.
DecodeFrom(s, i) ==
    IF i > Len(s) THEN [ok |-> TRUE, s |-> <<>>]
    ELSE IF s[i] # "%" THEN DecodeStep(s, i, 1, 0)
    ELSE IF ~HasByteAt(s, i) THEN [ok |-> FALSE, s |-> <<>>]
    ELSE IF SequenceLength(ByteAt(s, i)) = 0 THEN [ok |-> FALSE, s |-> <<>>]
    ELSE DecodeStep(s, i, 3 * SequenceLength(ByteAt(s, i)),
                    CodePointAt(s, i, SequenceLength(ByteAt(s, i))))

\* decodeURIComponent
DecodeURIComponent(seg) == DecodeFrom(Chars(seg), 1)

Routes ==
    << [method |-> "GET", path |-> <<>>, handler |-> "root"],
       [method |-> "GET", path |-> <<"health">>, handler |-> "health"],
       [method |-> "POST", path |-> <<"create-checkout-session">>,
        handler |-> "create-checkout-session"],
       [method |-> "GET", path |-> <<"verify-session", ":sessionId">>,
        handler |-> "verify-session"],
       [method |-> "GET", path |-> <<"payment-success">>, handler |-> "payment-success"],
       [method |-> "GET", path |-> <<"payment-cancel">>, handler |-> "payment-cancel"],
       [method |-> "GET", path |-> <<"test">>, handler |-> "test"] >>

\* A route parameter such as :sessionId.
IsParam(seg) == seg = ":sessionId"

\* Non-strict routing: one trailing slash is ignored.
StripTrailingSlash(path) ==
    IF path # <<>> /\ path[Len(path)] = "" THEN SubSeq(path, 1, Len(path) - 1) ELSE path

\* Whether a request path matches a route's path: a parameter matches one
\* non-empty segment, and the other segments match whatever their case
\* (routing is not case sensitive by default).
PathMatches(pattern, path) ==
    LET p == StripTrailingSlash(path)
    IN /\ Len(p) = Len(pattern)
       /\ \A i \in 1..Len(pattern) :
            IF IsParam(pattern[i]) THEN p[i] # ""
            ELSE /\ Len(p[i]) = Len(pattern[i])
                 /\ \A k \in 1..Len(p[i]) :
                       \/ SubSeq(p[i], k, k) = SubSeq(pattern[i], k, k)
                       \/ \E n \in 1..26 :
                             {SubSeq(p[i], k, k), SubSeq(pattern[i], k, k)}
                               = {SubSeq("ABCDEFGHIJKLMNOPQRSTUVWXYZ", n, n),
                                  SubSeq("abcdefghijklmnopqrstuvwxyz", n, n)}

\* Express serves HEAD with the GET handler.
RouteMatches(r, method, path) ==
    /\ r.method = method \/ (r.method = "GET" /\ method = "HEAD")
    /\ PathMatches(r.path, path)

\* The first route of a route table that matches, 0 when none does.
MatchedRouteOf(routes, method, path) ==
    IF \E i \in 1..Len(routes) : RouteMatches(routes[i], method, path)
    THEN CHOOSE i \in 1..Len(routes) :
           /\ RouteMatches(routes[i], method, path)
           /\ \A j \in 1..(i - 1) : ~RouteMatches(routes[j], method, path)
    ELSE 0

\* The parameter of a route whose path the request's path matches that cannot
\* be decoded, "" when each can (a parameter is never empty).
UndecodableParam(route, path) ==
    LET params == {StripTrailingSlash(path)[i] :
                     i \in {j \in 1..Len(route.path) : IsParam(route.path[j])}}
        bad == {seg \in params : ~DecodeURIComponent(seg).ok}
    IN IF bad = {} THEN "" ELSE CHOOSE seg \in bad : TRUE

\* The first route that fails on a parameter of the request, 0 when none
\* does: the router decodes the parameters of a route as soon as the path
\* matches, before it looks at the method, unless an earlier route has taken
\* the request.
FailingRoute(routes, in) ==
    First({i \in 1..Len(routes) :
             /\ PathMatches(routes[i].path, in.path)
             /\ UndecodableParam(routes[i], in.path) # ""
             /\ \A j \in 1..(i - 1) : ~RouteMatches(routes[j], in.method, in.path)},
          0)

\* The error of route k on its parameter, "" when k is 0.
ParamError(routes, k, path) ==
    IF k = 0 THEN ""
    ELSE "Failed to decode param '" \o UndecodableParam(routes[k], path) \o "'"

\* The error the router passes on for a request, "" when there is none.  A
\* route for every path, `app.options('*', ...)` ahead of express.json, has
\* the whole path as its parameter and so fails on any path that cannot be
\* decoded, whatever the method; without that error, express.json fails on a
\* body it cannot parse; without that one, the first route that fails on a
\* parameter.
MiddlewareErrorOf(routes, wildcard, in) ==
    IF wildcard /\ ~DecodeURIComponent("/" \o JoinPath(in.path)).ok
    THEN "Failed to decode param '/" \o JoinPath(in.path) \o "'"
    ELSE IF in.parseError # "" THEN in.parseError
    ELSE ParamError(routes, FailingRoute(routes, in), in.path)

\* The handler a request is dispatched to: the CORS middleware answers every
\* OPTIONS request itself; an error passed on goes to the error handler; then
\* comes the first matching route, then the 404 handler.
DispatchOf(routes, wildcard, in) ==
    IF in.method = "OPTIONS" THEN "cors-preflight"
    ELSE IF MiddlewareErrorOf(routes, wildcard, in) # "" THEN "error-handler"
    ELSE IF MatchedRouteOf(routes, in.method, in.path) # 0
    THEN routes[MatchedRouteOf(routes, in.method, in.path)].handler
    ELSE "not-found"

\* The current revision registers `app.options('*', cors())` (line 110).
Dispatch(in) == DispatchOf(Routes, TRUE, in)

\* req.params.sessionId of a request routed to the verify handler: the
\* segment, percent-decoded.
SessionIdParam(path) == Str(DecodeURIComponent(StripTrailingSlash(path)[2]).s)

(***************************************************************************)
(* Responses.                                                              *)
(***************************************************************************)
Response(status, body) == [status |-> status, body |-> body]

NoResponse == [status |-> 0, body |-> [none |-> TRUE]]

RequiredFields == <<"amount", "userId", "planId", "planName">>

\* The 404 handler and its endpoint list.
NotFound(method, path) ==
    Response(404, [error |-> "Route not found", path |-> path, method |-> method,
                   availableEndpoints |->
                     << "GET /",
                        "GET /health",
                        "GET /test",
                        "POST /create-checkout-session",
                        "GET /verify-session/:sessionId",
                        "GET /payment-success",
                        "GET /payment-cancel" >>])

\* The error handler (lines 531-538); `stack` is undefined, and so left out,
\* unless NODE_ENV is development.
ErrorHandler(message) ==
    Response(500, [error |-> "Internal server error", message |-> message])

\* GET /payment-success: the page shows the session id when there is one,
\* has a script that logs `Session ID: ${session_id}` ("undefined" for an
\* absent session_id) and navigates to about:blank after 2000 ms.
PaymentSuccess(query) ==
    Response(200, [page |-> "Payment Successful",
                   sessionInfo |-> IF Truthy(query.session_id)
                                   THEN Join(JSToString(query.session_id)) ELSE "",
                   logged |-> "Session ID: " \o Join(JSToString(query.session_id)),
                   redirect |-> "about:blank", delay |-> 2000])

\* The CORS middleware's answer to a preflight request.
CorsPreflight == Response(204, [none |-> TRUE])

(***************************************************************************)
(* POST /create-checkout-session (lines 149-228).                          *)
(***************************************************************************)
SuccessPath ==
    <<"/", "p", "a", "y", "m", "e", "n", "t", "-", "s", "u", "c", "c", "e",
      "s", "s", "?", "s", "e", "s", "s", "i", "o", "n", "_", "i", "d", "=",
      "{", "C", "H", "E", "C", "K", "O", "U", "T", "_", "S", "E", "S", "S",
      "I", "O", "N", "_", "I", "D", "}">>

CancelPath ==
    <<"/", "p", "a", "y", "m", "e", "n", "t", "-", "c", "a", "n", "c", "e",
      "l">>

Monthly ==
    <<"m", "o", "n", "t", "h", "l", "y">>

DescriptionPrefix ==
    <<"3", "0", "-", "d", "a", "y", " ">>

DescriptionSuffix ==
    <<" ", "s", "u", "b", "s", "c", "r", "i", "p", "t", "i", "o", "n">>

\* `!amount || !userId || !planId || !planName`
MissingRequired(body) ==
    \/ ~Truthy(body.amount)
    \/ ~Truthy(body.userId)
    \/ ~Truthy(body.planId)
    \/ ~Truthy(body.planName)

\* `isNaN(numAmount) || numAmount <= 0`
InvalidAmount(numAmount) == IsNaN(numAmount) \/ LeqZero(numAmount)

\* The destructuring default `currency = 'usd'`: it applies to undefined only.
CurrencyOf(body) ==
    IF body.currency = Undefined THEN Str(<<"u", "s", "d">>) ELSE body.currency

\* `currency.toLowerCase()` throws a TypeError unless currency is a string.
CurrencyThrows(body) == CurrencyOf(body).t # "string"

\* The message of that TypeError.
CurrencyTypeError(body) ==
    IF body.currency = Null
    THEN "Cannot read properties of null (reading 'toLowerCase')"
    ELSE "currency.toLowerCase is not a function"

\* `${process.env.FRONTEND_URL || req.headers.origin}<path>`
DerivedUrl(e, origin, path) == JSToString(Or(e.FRONTEND_URL, origin)) \o path

\* The metadata without planName.
MetadataWithoutPlanName(body) ==
    [userId |-> body.userId, planId |-> body.planId, subscriptionType |-> Str(Monthly)]

\* The metadata of the session.
Metadata(body) ==
    [userId |-> body.userId, planId |-> body.planId, planName |-> body.planName,
     subscriptionType |-> Str(Monthly)]

\* The single line item of the session.
LineItems(body, numAmount) ==
    << [price_data |->
          [currency |-> ToLowerCase(CurrencyOf(body).s),
           product_data |->
             [name |-> body.planName,
              description |-> DescriptionPrefix \o JSToString(body.planName)
                              \o DescriptionSuffix],
           unit_amount |-> RoundTimesHundred(numAmount)],
        quantity |-> 1] >>

\* The argument of stripe.checkout.sessions.create.
SessionParams(body, e, origin) ==
    [payment_method_types |-> <<"card">>,
     line_items |-> LineItems(body, ParseFloat(body.amount)),
     mode |-> "payment",
     success_url |-> Or(body.successUrl, Str(DerivedUrl(e, origin, SuccessPath))),
     cancel_url |-> Or(body.cancelUrl, Str(DerivedUrl(e, origin, CancelPath))),
     metadata |-> Metadata(body)]

NoCall == [op |-> "none"]

\* The handler up to its await: the response it sends, or the call it makes.
\* res.json leaves out the properties of `received` that are undefined and
\* writes the others as JSON does.
CreateCheckoutSession(body, e, origin) ==
    IF MissingRequired(body)
    THEN [res |-> Response(400, [error |-> "Missing required fields",
                                 required |-> RequiredFields,
                                 received |->
                                   [key \in {x \in {"amount", "userId", "planId",
                                                     "planName"} :
                                               body[x] # Undefined} |->
                                      JsonValue(body[key])]]),
          call |-> NoCall]
    ELSE IF InvalidAmount(ParseFloat(body.amount))
    THEN [res |-> Response(400, [error |-> "Invalid amount",
                                 received |-> JsonValue(body.amount)]),
          call |-> NoCall]
    ELSE IF CurrencyThrows(body)
    THEN [res |-> Response(500, [error |-> CurrencyTypeError(body), type |-> "unknown",
                                 details |-> "No additional details"]),
          call |-> NoCall]
    ELSE [res |-> NoResponse,
          call |-> [op |-> "create", params |-> SessionParams(body, e, origin)]]

\* The handler after its await: `error.type || 'unknown'` and
\* `error.raw?.message || 'No additional details'`; an absent property of the
\* error is "".
CreateResumed(ret) ==
    IF ret.ok
    THEN Response(200, [id |-> ret.session.id, url |-> ret.session.url, success |-> TRUE])
    ELSE Response(500, [error |-> ret.error.message,
                        type |-> IF ret.error.type # "" THEN ret.error.type
                                 ELSE "unknown",
                        details |-> IF ret.error.raw # "" THEN ret.error.raw
                                    ELSE "No additional details"])

(***************************************************************************)
(* GET /verify-session/:sessionId (lines 231-261).                         *)
(***************************************************************************)
\* The handler up to its await.
VerifySession(sessionId) ==
    IF ~Truthy(sessionId)
    THEN [res |-> Response(400, [error |-> "Missing sessionId"]), call |-> NoCall]
    ELSE [res |-> NoResponse, call |-> [op |-> "retrieve", id |-> sessionId]]

\* The handler after its await.
VerifyResumed(ret) ==
    IF ret.ok
    THEN Response(200, [status |-> ret.session.payment_status,
                        amount |-> DivHundred(ret.session.amount_total),
                        metadata |-> ret.session.metadata,
                        success |-> TRUE])
    ELSE Response(500, [error |-> ret.error.message, success |-> FALSE])

(***************************************************************************)
(* The earlier revision of the server, src/unnamed/part_000: the same      *)
(* create and verify handlers without the amount check, the origin         *)
(* fallback, planName in the metadata, the 404 handler, the error handler  *)
(* and the startup check of the credential.                                *)
(***************************************************************************)
\* The radix of the literal at s[i]: 16, 8 or 2 after 0x, 0o or 0b, else 0.
RadixAt(s, i) ==
    IF i + 1 <= Len(s) /\ s[i] = "0"
    THEN CASE s[i + 1] \in {"x", "X"} -> 16
           [] s[i + 1] \in {"o", "O"} -> 8
           [] s[i + 1] \in {"b", "B"} -> 2
           [] OTHER -> 0
    ELSE 0

\* The value of the digits s[i..j-1] in the given radix.
RECURSIVE RadixValue(_, _, _, _)
RadixValue(s, i, j, radix) ==
    IF j <= i THEN 0 ELSE RadixValue(s, i, j - 1, radix) * radix + HexVal(s[j - 1])

\* The index of the last character of s that is not white space, 0 when
\* there is none.
LastNonWhiteSpace(s) ==
    CHOOSE j \in 0..Len(s) :
        /\ j = 0 \/ ~IsWhiteSpace(s[j])
        /\ \A k \in (j + 1)..Len(s) : IsWhiteSpace(s[k])

\* The value of s[i..last] as the digits of a literal in the given radix,
\* NaN unless there is at least one digit and nothing else.
RadixLiteral(s, i, last, radix) ==
    IF i <= last /\ \A k \in i..last : (IsHex(s[k]) /\ HexVal(s[k]) < radix)
    THEN Canonical(FALSE, RadixValue(s, i, last + 1, radix), 0)
    ELSE NaN

\* The decimal literal scanned, NaN unless it ends where the string does.
WholeDecimal(scan, last) ==
    IF IsNaN(scan.num) \/ scan.end # last + 1 THEN NaN ELSE scan.num

\* The StrNumericLiteral s[i0..last].
StrNumericLiteral(s, i0, last) ==
    IF RadixAt(s, i0) # 0
    THEN RadixLiteral(s, i0 + 2, last, RadixAt(s, i0))
    ELSE WholeDecimal(ScanDecimal(s, i0), last)

\* ToNumber of a string: white space around a StrNumericLiteral that is the
\* whole of the rest; 0 when nothing is left, NaN for anything else.
StringToNumber(s) ==
    IF SkipWhiteSpace(s, 1) > Len(s) THEN Canonical(FALSE, 0, 0)
    ELSE StrNumericLiteral(s, SkipWhiteSpace(s, 1), LastNonWhiteSpace(s))

\* ToNumber, as `amount * 100` applies it.
ToNumber(v) ==
    CASE v.t = "undefined" -> NaN
      [] v.t = "null" -> Canonical(FALSE, 0, 0)
      [] v.t = "boolean" -> Canonical(FALSE, IF v.b THEN 1 ELSE 0, 0)
      [] v.t = "string" -> StringToNumber(v.s)
      [] v.t = "number" -> v.num

DraftRoutes ==
    << [method |-> "POST", path |-> <<"create-checkout-session">>,
        handler |-> "create-checkout-session"],
       [method |-> "GET", path |-> <<"verify-session", ":sessionId">>,
        handler |-> "verify-session"],
       [method |-> "GET", path |-> <<"payment-success">>, handler |-> "payment-success"],
       [method |-> "GET", path |-> <<"payment-cancel">>, handler |-> "payment-cancel"],
       [method |-> "GET", path |-> <<"health">>, handler |-> "health"] >>

\* The argument of stripe.checkout.sessions.create; its single line item has
\* `Math.round(amount * 100)` on the amount as sent.
DraftSessionParams(body, e) ==
    [payment_method_types |-> <<"card">>,
     line_items |->
       << [price_data |->
             [currency |-> ToLowerCase(CurrencyOf(body).s),
              product_data |->
                [name |-> body.planName,
                 description |-> DescriptionPrefix \o JSToString(body.planName)
                                 \o DescriptionSuffix],
              unit_amount |-> RoundTimesHundred(ToNumber(body.amount))],
           quantity |-> 1] >>,
     mode |-> "payment",
     success_url |-> Or(body.successUrl, Str(JSToString(e.FRONTEND_URL) \o SuccessPath)),
     cancel_url |-> Or(body.cancelUrl, Str(JSToString(e.FRONTEND_URL) \o CancelPath)),
     metadata |-> [userId |-> body.userId, planId |-> body.planId,
                   subscriptionType |-> Str(Monthly)],
     payment_intent_data |-> [setup_future_usage |-> Null]]

\* POST /create-checkout-session up to its await.
DraftCreateCheckoutSession(body, e) ==
    IF MissingRequired(body)
    THEN [res |-> Response(400, [error |->
                    "Missing required fields: amount, userId, planId, planName"]),
          call |-> NoCall]
    ELSE IF CurrencyThrows(body)
    THEN [res |-> Response(500, [error |-> CurrencyTypeError(body)]), call |-> NoCall]
    ELSE [res |-> NoResponse,
          call |-> [op |-> "create", params |-> DraftSessionParams(body, e)]]

\* What a handler of the earlier revision does with a request before its
\* first await (if any).  Express itself answers an error a middleware
\* passes on with the status of the error (400 for a body that does not parse
\* and for a parameter that does not decode), and a request no route takes
\* with 404.  The page of GET /payment-success navigates to the app's URL
\* after 2000 ms; `${session_id}` of an absent session_id is "undefined".
DraftHandle(in, e) ==
    LET h == DispatchOf(DraftRoutes, FALSE, in)
        done(res) == [res |-> res, call |-> NoCall]
    IN CASE h = "cors-preflight" -> done(CorsPreflight)
         [] h = "error-handler" -> done(Response(400, [page |-> MiddlewareErrorOf(DraftRoutes, FALSE, in)]))
         [] h = "health" -> done(Response(200, [status |-> "ok"]))
         [] h = "payment-success" ->
              done(Response(200, [page |-> "Payment Successful",
                                  sessionInfo |-> IF Truthy(in.query.session_id)
                                                  THEN Join(JSToString(in.query.session_id))
                                                  ELSE "",
                                  redirect |-> "app://payment-success?session_id="
                                               \o Join(JSToString(in.query.session_id)),
                                  delay |-> 2000]))
         [] h = "payment-cancel" ->
              done(Response(200, [page |-> "Payment Cancelled",
                                  redirect |-> "app://payment-cancel", delay |-> 2000]))
         [] h = "create-checkout-session" -> DraftCreateCheckoutSession(in.body, e)
         [] h = "verify-session" ->
              IF ~Truthy(SessionIdParam(in.path))
              THEN done(Response(400, [error |-> "Missing sessionId"]))
              ELSE [res |-> NoResponse,
                    call |-> [op |-> "retrieve", id |-> SessionIdParam(in.path)]]
         [] h = "not-found" ->
              done(Response(404, [page |-> "Cannot " \o in.method \o " /"
                                           \o JoinPath(in.path)]))

\* The response of a handler of the earlier revision after its await.
DraftResumed(call, ret) ==
    IF ~ret.ok THEN Response(500, [error |-> ret.error.message])
    ELSE IF call.op = "create"
    THEN Response(200, [id |-> ret.session.id, url |-> ret.session.url])
    ELSE Response(200, [status |-> ret.session.payment_status,
                        amount |-> DivHundred(ret.session.amount_total),
                        metadata |-> ret.session.metadata])

(***************************************************************************)
(* The payment processor, as the adapter sees it: a store of checkout      *)
(* sessions, a create call and a retrieve call, each of which may fail.    *)
(***************************************************************************)
\* The errors a call to the processor may throw; an absent property is "".
ProcessorErrors ==
    { [message |-> "Invalid API Key provided", type |-> "StripeAuthenticationError",
       raw |-> "Invalid API Key provided"],
      [message |-> "socket hang up", type |-> "", raw |-> ""] }

InvalidRequest(message) ==
    [message |-> message, type |-> "StripeInvalidRequestError", raw |-> message]

\* The processor prices line items, and payment intents, in integer minor
\* units.
ValidParams(params) ==
    IF "line_items" \in DOMAIN params
    THEN \A i \in 1..Len(params.line_items) :
           /\ params.line_items[i].price_data.unit_amount.k = "fin"
           /\ ~params.line_items[i].price_data.unit_amount.neg
    ELSE params.amount.k = "fin" /\ ~params.amount.neg

\* The object the processor stores for a create call, a checkout session or
\* a payment intent; n numbers it.
NewSession(params, n) ==
    IF "line_items" \in DOMAIN params
    THEN [id |-> "cs_" \o ToString(n),
          url |-> "https://checkout.stripe.com/c/pay/cs_" \o ToString(n),
          payment_status |-> "unpaid",
          amount_total |-> [params.line_items[1].price_data.unit_amount
                              EXCEPT !.m = @ * params.line_items[1].quantity],
          currency |-> params.line_items[1].price_data.currency,
          metadata |-> params.metadata,
          success_url |-> params.success_url,
          cancel_url |-> params.cancel_url]
    ELSE [id |-> "pi_" \o ToString(n),
          client_secret |-> "pi_" \o ToString(n) \o "_secret",
          status |-> "requires_payment_method",
          amount |-> params.amount,
          currency |-> params.currency,
          metadata |-> params.metadata]

\* The processor has an object under the id a retrieve call names; its ids
\* are strings.
HasSession(id) ==
    id.t = "string" /\ \E k \in 1..Len(sessions) : sessions[k].id = Join(id.s)

(***************************************************************************)
(* The requests clients send.                                              *)
(***************************************************************************)
U1 ==
    <<"u", "1">>

P1 ==
    <<"p", "1">>

Pro ==
    <<"P", "r", "o">>

OriginUrl ==
    <<"h", "t", "t", "p", ":", "/", "/", "b", ".", "i", "o">>

SuccessOverride ==
    <<"h", "t", "t", "p", "s", ":", "/", "/", "c", ".", "i", "o", "/", "o",
      "k">>

CancelOverride ==
    <<"h", "t", "t", "p", "s", ":", "/", "/", "c", ".", "i", "o", "/", "n",
      "o">>

Body(amount, currency, userId, planId, planName, successUrl, cancelUrl) ==
    [amount |-> amount, currency |-> currency, userId |-> userId, planId |-> planId,
     planName |-> planName, successUrl |-> successUrl, cancelUrl |-> cancelUrl]

EmptyBody == Body(Undefined, Undefined, Undefined, Undefined, Undefined, Undefined,
                  Undefined)

ValidBody(amount) ==
    Body(amount, Undefined, Str(U1), Str(P1), Str(Pro), Undefined, Undefined)

\* Bodies with every combination of the required fields present or absent,
\* and bodies whose required field is present but falsy.
PresenceBodies ==
    { Body(a, Undefined, u, p, n, Undefined, Undefined) :
        a \in {Undefined, Num(1999, -2)}, u \in {Undefined, Str(U1)},
        p \in {Undefined, Str(P1)}, n \in {Undefined, Str(Pro)} }
    \cup { [ValidBody(Num(0, 0)) EXCEPT !.planId = Undefined],
           [ValidBody(Num(1999, -2)) EXCEPT !.userId = Str(<<>>), !.planName = Undefined],
           [ValidBody(Num(1999, -2)) EXCEPT !.planId = Null, !.userId = Undefined],
           \* 1e999, which JSON.parse reads as Infinity, and -0
           [ValidBody(Num(1, 999)) EXCEPT !.planId = Undefined],
           [ValidBody([Num(0, 0) EXCEPT !.num.neg = TRUE]) EXCEPT !.planName = Undefined] }

\* The amounts of otherwise valid bodies.
Amounts ==
    { Num(1999, -2), Num(10005, -3), Num(1005, -3), Num(12, 0), Num(1, -3),
      Num(-5, 0), Num(0, 0),
      Str(<<"1", "9", ".", "9", "9">>), Str(<<"1", "2", "a", "b", "c">>), Str(<<"a", "b", "c">>),
      Str(<<"-", "3">>), Str(<<" ", "7", ".", "5", "e", "1">>), Str(<<"I", "n", "f", "i", "n", "i", "t", "y">>),
      Str(<<"\f", "5">>), Str(<<"1", "e", "-", "4", "0", "0">>), Num(1, -7),
      Str(<<"3", "e", "-", "3", "2", "4">>), Num(-12, -324), Bool(TRUE),
      \* 1e999 and -1e999 (Infinity and -Infinity once parsed), and amounts
      \* with leading U+00A0, U+FEFF and U+2003
      Num(1, 999), Num(-1, 999), Str(<<CharOfCode(160), "5">>),
      Str(<<CharOfCode(65279), CharOfCode(8195), "2", ".", "5">>) }

UrlBodies ==
    { [ValidBody(Num(1999, -2)) EXCEPT !.successUrl = Str(SuccessOverride),
                                       !.cancelUrl = Str(CancelOverride)],
      [ValidBody(Num(1999, -2)) EXCEPT !.cancelUrl = Str(CancelOverride)] }

\* req.query of a request without a query string.
NoQuery == [session_id |-> Undefined]

\* A request whose body express.json parses (to {} when there is none).
Request(method, path, query, body, origin) ==
    [method |-> method, path |-> path, query |-> query, body |-> body,
     origin |-> origin, parseError |-> ""]

\* A request with a JSON body that express.json cannot parse, `{"amount":`:
\* req.body is never set, and the error is the SyntaxError of JSON.parse.
MalformedRequest(method, path) ==
    [Request(method, path, NoQuery, EmptyBody, Str(OriginUrl))
       EXCEPT !.parseError = "Unexpected end of JSON input"]

CreatePath == <<"create-checkout-session">>

CreateRequests ==
    { Request("POST", CreatePath, NoQuery, b, Str(OriginUrl)) :
        b \in PresenceBodies \cup UrlBodies
              \cup { ValidBody(a) : a \in Amounts }
              \cup { [ValidBody(Num(1999, -2)) EXCEPT !.currency = c] :
                       c \in {Str(<<"U", "S", "D">>), Str(<<"e", "u", "r">>), Null,
                              Num(5, 0),
                              \* U+00C9 "UR", U+0130 "S", omicron sigma, and a sigma alone
                              Str(<<CharOfCode(201), "U", "R">>),
                              Str(<<CharOfCode(304), "S">>),
                              Str(<<CharOfCode(927), CharOfCode(931)>>),
                              Str(<<CharOfCode(931)>>),
                              \* U+A7CB; U+0295 and a sigma; "A", U+0897 and a sigma
                              Str(<<CharOfCode(42955)>>),
                              Str(<<CharOfCode(661), CharOfCode(931)>>),
                              Str(<<"A", CharOfCode(2199), CharOfCode(931)>>)} }
              \cup { [ValidBody(Num(1999, -2)) EXCEPT !.planName = n] :
                       n \in {Num(1, -7), Num(25, -1), Num(49, -325)} } }
    \cup { Request("POST", CreatePath, NoQuery, b, Undefined) :
             b \in {ValidBody(Num(1999, -2))} \cup UrlBodies }
    \cup { Request("POST", <<"Create-Checkout-Session">>, NoQuery, b, Str(OriginUrl)) :
             b \in {ValidBody(Num(1999, -2)), EmptyBody} }
    \cup { MalformedRequest("POST", CreatePath) }

VerifyRequests ==
    { Request("GET", p, NoQuery, EmptyBody, Undefined) :
        p \in { <<"verify-session", "cs_1">>, <<"verify-session", "cs_9">>,
                <<"verify-session", "">>, <<"verify-session">>,
                <<"Verify-Session", "cs_1">>, <<"verify-session", "CS_1">>,
                <<"verify-session", "cs%5F1">>, <<"verify-session", "cs%201">>,
                <<"verify-session", "%zz">>, <<"verify-session", "%E2%82%AC">>,
                <<"verify-session", "%C0%80">> } }

OtherRequests ==
    { Request(m, p, NoQuery, EmptyBody, Undefined) :
        m \in {"GET"},
        p \in { <<>>, <<"health">>, <<"test">>, <<"payment-cancel">>,
                <<"nonexistent">>, <<"create-checkout-session">>, <<"health", "">>,
                <<"health", "x">> } }
    \cup { Request("GET", <<"payment-success">>, [session_id |-> s], EmptyBody, Undefined) :
             s \in {Undefined, Str(<<>>), Str(<<"c", "s", "_", "1">>)} }
    \cup { Request("POST", <<"health">>, NoQuery, EmptyBody, Undefined),
           Request("HEAD", <<"health">>, NoQuery, EmptyBody, Undefined),
           Request("DELETE", <<"verify-session", "cs_1">>, NoQuery, EmptyBody, Undefined),
           Request("OPTIONS", CreatePath, NoQuery, EmptyBody, Str(OriginUrl)),
           Request("OPTIONS", <<"nonexistent">>, NoQuery, EmptyBody, Str(OriginUrl)),
           Request("GET", <<"HEALTH">>, NoQuery, EmptyBody, Undefined),
           Request("GET", <<"Payment-Success">>, NoQuery, EmptyBody, Undefined),
           MalformedRequest("POST", <<"nonexistent">>),
           MalformedRequest("POST", <<"health">>),
           MalformedRequest("OPTIONS", CreatePath),
           Request("GET", <<"nonexistent", "%zz">>, NoQuery, EmptyBody, Undefined),
           Request("GET", <<"health%zz">>, NoQuery, EmptyBody, Undefined),
           Request("GET", <<"%E0%A4%A">>, NoQuery, EmptyBody, Undefined),
           Request("GET", <<"verify-session", "%zz", "x">>, NoQuery, EmptyBody, Undefined),
           Request("POST", <<"verify-session", "%zz">>, NoQuery, EmptyBody, Undefined),
           Request("OPTIONS", <<"verify-session", "%zz">>, NoQuery, EmptyBody,
                   Str(OriginUrl)),
           MalformedRequest("POST", <<"create-checkout-session", "%zz">>),
           MalformedRequest("GET", <<"verify-session", "%zz">>) }

\* The requests of the concurrent specification.
CoreRequests ==
    { Request("POST", CreatePath, NoQuery, b, Str(OriginUrl)) :
        b \in { ValidBody(Num(1999, -2)),
                [ValidBody(Num(25, -1)) EXCEPT !.userId = Str(<<"u", "2">>),
                                               !.currency = Str(<<"E", "U", "R">>)],
                [ValidBody(Num(1999, -2)) EXCEPT !.planName = Undefined] } }
    \cup { Request("GET", <<"verify-session", id>>, NoQuery, EmptyBody, Undefined) :
             id \in {"cs_1", "cs_2", "cs_9"} }
    \cup { Request("GET", <<"health">>, NoQuery, EmptyBody, Undefined),
           Request("GET", <<"payment-success">>, [session_id |-> Str(<<"c", "s", "_", "1">>)], EmptyBody,
                   Undefined),
           Request("GET", <<"nonexistent">>, NoQuery, EmptyBody, Undefined) }

Environments ==
    { [PRIVATE_KEY |-> k, FRONTEND_URL |-> f] :
        k \in {Undefined, Str(<<>>), Str(<<"s", "k">>)},
        f \in {Undefined, Str(<<"h", "t", "t", "p", "s", ":", "/", "/", "a", ".", "i", "o">>)} }

(***************************************************************************)
(* The state machine.                                                      *)
(***************************************************************************)
NoReturn == [ok |-> FALSE, none |-> TRUE]

\* What a handler does with a request before its first await (if any).
Handle(in, e) ==
    LET h == Dispatch(in)
        done(res) == [res |-> res, call |-> NoCall]
    IN CASE h = "cors-preflight" -> done(CorsPreflight)
         [] h = "error-handler" -> done(ErrorHandler(MiddlewareErrorOf(Routes, TRUE, in)))
         [] h = "root" ->
              done(Response(200, [status |-> "ok",
                                  message |-> "Stripe Payment Server is running",
                                  endpoints |-> << "POST /create-checkout-session",
                                                   "GET /verify-session/:sessionId",
                                                   "GET /payment-success",
                                                   "GET /payment-cancel",
                                                   "GET /health" >>]))
         [] h = "health" -> done(Response(200, [status |-> "ok", stripe |-> "configured"]))
         [] h = "test" ->
              done(Response(200, [message |-> "Server is working!",
                                  stripe_configured |-> Truthy(e.PRIVATE_KEY)]))
         [] h = "payment-success" -> done(PaymentSuccess(in.query))
         [] h = "payment-cancel" ->
              done(Response(200, [page |-> "Payment Cancelled",
                                  redirect |-> "about:blank", delay |-> 2000]))
         [] h = "create-checkout-session" ->
              CreateCheckoutSession(in.body, e, in.origin)
         [] h = "verify-session" -> VerifySession(SessionIdParam(in.path))
         [] h = "not-found" -> done(NotFound(in.method, in.path))

Init ==
    /\ phase = "starting"
    /\ exitCode = -1
    /\ env \in Environments
    /\ reqs = <<>>
    /\ sessions = <<>>

\* Startup: exit when the credential is missing, else listen.
Start ==
    /\ phase = "starting"
    /\ IF KeyMissing(env)
       THEN phase' = "exited" /\ exitCode' = MissingKeyExitCode
       ELSE phase' = "listening" /\ exitCode' = exitCode
    /\ UNCHANGED <<env, reqs, sessions>>

\* Accept, with a success page that marks the session it names as paid.
AcceptMarkingPaid(in, max) ==
    /\ phase = "listening"
    /\ Len(reqs) < max
    /\ LET out == Handle(in, env)
           awaits == out.call # NoCall
       IN reqs' = Append(reqs, [in |-> in,
                                pc |-> IF awaits THEN "awaiting" ELSE "done",
                                calls |-> IF awaits THEN 1 ELSE 0,
                                call |-> out.call,
                                ret |-> NoReturn,
                                res |-> out.res])
    /\ sessions' = IF Dispatch(in) = "payment-success"
                   THEN [k \in 1..Len(sessions) |->
                           IF sessions[k].id = Join(JSToString(in.query.session_id))
                           THEN [sessions[k] EXCEPT !.payment_status = "paid"]
                           ELSE sessions[k]]
                   ELSE sessions
    /\ UNCHANGED <<phase, exitCode, env>>

\* A request arrives and its handler runs up to its response or its await;
\* the server takes at most max requests.
Accept(in, max) ==
    /\ phase = "listening"
    /\ Len(reqs) < max
    /\ LET out == Handle(in, env)
           awaits == out.call # NoCall
       IN reqs' = Append(reqs, [in |-> in,
                                pc |-> IF awaits THEN "awaiting" ELSE "done",
                                calls |-> IF awaits THEN 1 ELSE 0,
                                call |-> out.call,
                                ret |-> NoReturn,
                                res |-> out.res])
    /\ UNCHANGED <<phase, exitCode, env, sessions>>

Returned(i, ret) ==
    reqs' = [reqs EXCEPT ![i].pc = "returned", ![i].ret = ret]

\* The processor carries out a create call.
ProcessorCreate(i) ==
    /\ reqs[i].pc = "awaiting"
    /\ reqs[i].call.op = "create"
    /\ ValidParams(reqs[i].call.params)
    /\ LET s == NewSession(reqs[i].call.params, Len(sessions) + 1)
       IN /\ sessions' = Append(sessions, s)
          /\ Returned(i, [ok |-> TRUE, session |-> s])
    /\ UNCHANGED <<phase, exitCode, env>>

\* The processor carries out a retrieve call.
ProcessorRetrieve(i) ==
    /\ reqs[i].pc = "awaiting"
    /\ reqs[i].call.op = "retrieve"
    /\ HasSession(reqs[i].call.id)
    /\ Returned(i, [ok |-> TRUE,
                    session |-> sessions[CHOOSE k \in 1..Len(sessions) :
                                           sessions[k].id = Join(reqs[i].call.id.s)]])
    /\ UNCHANGED <<phase, exitCode, env, sessions>>

\* A call to the processor fails: the request is invalid, the object (a
\* checkout.session, a payment_intent) is unknown, or the credential or the
\* connection is bad.
ProcessorFail(i, object) ==
    /\ reqs[i].pc = "awaiting"
    /\ \E error \in
           ProcessorErrors
           \cup (IF reqs[i].call.op = "create" /\ ~ValidParams(reqs[i].call.params)
                 THEN {InvalidRequest("Invalid integer")} ELSE {})
           \cup (IF reqs[i].call.op = "retrieve" /\ ~HasSession(reqs[i].call.id)
                 THEN {InvalidRequest("No such " \o object)} ELSE {}) :
         Returned(i, [ok |-> FALSE, error |-> error])
    /\ UNCHANGED <<phase, exitCode, env, sessions>>

\* The response of a handler that resumes after its await.
Resumed(call, ret) ==
    IF call.op = "create" THEN CreateResumed(ret) ELSE VerifyResumed(ret)

\* Resume, with one retry of a failed call.
ResumeRetrying(i) ==
    /\ reqs[i].pc = "returned"
    /\ reqs' = IF ~reqs[i].ret.ok /\ reqs[i].calls < 2
               THEN [reqs EXCEPT ![i].pc = "awaiting", ![i].calls = @ + 1]
               ELSE [reqs EXCEPT ![i].pc = "done",
                                 ![i].res = Resumed(reqs[i].call, reqs[i].ret)]
    /\ UNCHANGED <<phase, exitCode, env, sessions>>

\* The handler resumes after its await and responds.
Resume(i) ==
    /\ reqs[i].pc = "returned"
    /\ reqs' = [reqs EXCEPT ![i].pc = "done",
                            ![i].res = Resumed(reqs[i].call, reqs[i].ret)]
    /\ UNCHANGED <<phase, exitCode, env, sessions>>

\* The customer pays on the processor's hosted page.
CustomerPays(k) ==
    /\ sessions[k].payment_status = "unpaid"
    /\ sessions' = [sessions EXCEPT ![k].payment_status = "paid"]
    /\ UNCHANGED <<phase, exitCode, env, reqs>>

\* Concurrent requests.
Next ==
    \/ Start
    \/ \E in \in CoreRequests : Accept(in, MaxRequests)
    \/ \E i \in 1..Len(reqs) : ProcessorCreate(i)
    \/ \E i \in 1..Len(reqs) : ProcessorRetrieve(i)
    \/ \E i \in 1..Len(reqs) : ProcessorFail(i, "checkout.session")
    \/ \E i \in 1..Len(reqs) : Resume(i)
    \/ \E k \in 1..Len(sessions) : CustomerPays(k)

Spec == Init /\ [][Next]_vars

\* Every request, against a processor that may hold a session created by an
\* earlier run of the adapter.
InitAny ==
    /\ phase = "starting"
    /\ exitCode = -1
    /\ env \in Environments
    /\ reqs = <<>>
    /\ sessions \in { <<>>,
                      <<NewSession(SessionParams(ValidBody(Num(1999, -2)), env,
                                                 Str(OriginUrl)), 1)>> }

NextAny ==
    \/ Start
    \/ \E in \in CreateRequests \cup VerifyRequests \cup OtherRequests :
         Accept(in, MaxAnyRequests)
    \/ \E i \in 1..Len(reqs) : ProcessorCreate(i)
    \/ \E i \in 1..Len(reqs) : ProcessorRetrieve(i)
    \/ \E i \in 1..Len(reqs) : ProcessorFail(i, "checkout.session")
    \/ \E i \in 1..Len(reqs) : Resume(i)
    \/ \E k \in 1..Len(sessions) : CustomerPays(k)

SpecAny == InitAny /\ [][NextAny]_vars

\* The requests of the specification of amounts: a creation for each amount
\* of three decimals that lies halfway between two cents, 0.005 up to
\* MaxCents cents and a half, and for 1.005, 10.005 and 19.99; and the
\* verification of the first session.
AmountRequests ==
    { Request("POST", CreatePath, NoQuery, ValidBody(a), Str(OriginUrl)) :
        a \in { Num(10 * c + 5, -3) : c \in 0..MaxCents }
              \cup { Num(1005, -3), Num(10005, -3), Num(1999, -2) } }
    \cup { Request("GET", <<"verify-session", "cs_1">>, NoQuery, EmptyBody, Undefined) }

\* Creations over a range of amounts, and their verification.
NextAmounts ==
    \/ Start
    \/ \E in \in AmountRequests : Accept(in, MaxAmountRequests)
    \/ \E i \in 1..Len(reqs) : ProcessorCreate(i)
    \/ \E i \in 1..Len(reqs) : ProcessorRetrieve(i)
    \/ \E i \in 1..Len(reqs) : ProcessorFail(i, "checkout.session")
    \/ \E i \in 1..Len(reqs) : Resume(i)
    \/ \E k \in 1..Len(sessions) : CustomerPays(k)

SpecAmounts == Init /\ [][NextAmounts]_vars

(***************************************************************************)
(* The earlier revision as a state machine.                                *)
(***************************************************************************)
\* The requests of the specification of the earlier revision.
DraftRequests ==
    { Request("POST", CreatePath, NoQuery, b, Str(OriginUrl)) :
        b \in { ValidBody(Num(1999, -2)), ValidBody(Num(-5, 0)),
                ValidBody(Str(<<"a", "b", "c">>)), ValidBody(Str(<<"1", "2", "a", "b", "c">>)),
                ValidBody(Str(<<" ", "0", "x", "1", "F", " ">>)), ValidBody(Bool(TRUE)),
                ValidBody(Str(<<CharOfCode(160), "5", CharOfCode(8232)>>)),
                [ValidBody(Num(25, -1)) EXCEPT !.currency = Str(<<CharOfCode(201), "U", "R">>)],
                [ValidBody(Num(1999, -2)) EXCEPT !.planName = Undefined],
                [ValidBody(Num(1999, -2)) EXCEPT !.currency = Null],
                [ValidBody(Num(1999, -2)) EXCEPT !.successUrl = Str(SuccessOverride)] } }
    \cup { Request("GET", <<"verify-session", id>>, NoQuery, EmptyBody, Undefined) :
             id \in {"cs_1", "cs_9", "%zz"} }
    \cup { Request("GET", <<"payment-success">>, [session_id |-> s], EmptyBody, Undefined) :
             s \in {Undefined, Str(<<>>), Str(<<"c", "s", "_", "1">>)} }
    \cup { Request("GET", p, NoQuery, EmptyBody, Undefined) :
             p \in {<<"health">>, <<"payment-cancel">>, <<>>, <<"test">>} }
    \cup { Request("OPTIONS", CreatePath, NoQuery, EmptyBody, Str(OriginUrl)),
           MalformedRequest("POST", CreatePath),
           Request("POST", <<"verify-session", "%zz">>, NoQuery, EmptyBody, Undefined),
           Request("GET", <<"nonexistent", "%zz">>, NoQuery, EmptyBody, Undefined),
           MalformedRequest("GET", <<"verify-session", "%zz">>) }

\* Startup of the earlier revision: no check of the credential.  Without
\* one, `Stripe(process.env.PRIVATE_KEY)` (line 8) either throws, which ends
\* the process, or returns a client whose every call fails, as the version
\* of the client library has it.
DraftStart ==
    /\ phase = "starting"
    /\ \/ phase' = "listening" /\ exitCode' = exitCode
       \/ ~Truthy(env.PRIVATE_KEY) /\ phase' = "exited" /\ exitCode' = 1
    /\ UNCHANGED <<env, reqs, sessions>>

\* A request arrives and its handler runs up to its response or its await.
DraftAccept(in, max) ==
    /\ phase = "listening"
    /\ Len(reqs) < max
    /\ LET out == DraftHandle(in, env)
           awaits == out.call # NoCall
       IN reqs' = Append(reqs, [in |-> in,
                                pc |-> IF awaits THEN "awaiting" ELSE "done",
                                calls |-> IF awaits THEN 1 ELSE 0,
                                call |-> out.call,
                                ret |-> NoReturn,
                                res |-> out.res])
    /\ UNCHANGED <<phase, exitCode, env, sessions>>

\* The handler resumes after its await and responds.
DraftResume(i) ==
    /\ reqs[i].pc = "returned"
    /\ reqs' = [reqs EXCEPT ![i].pc = "done",
                            ![i].res = DraftResumed(reqs[i].call, reqs[i].ret)]
    /\ UNCHANGED <<phase, exitCode, env, sessions>>

NextDraft ==
    \/ DraftStart
    \/ \E in \in DraftRequests : DraftAccept(in, MaxDraftRequests)
    \* the processor carries out only a call made with a credential
    \/ \E i \in 1..Len(reqs) : Truthy(env.PRIVATE_KEY) /\ ProcessorCreate(i)
    \/ \E i \in 1..Len(reqs) : Truthy(env.PRIVATE_KEY) /\ ProcessorRetrieve(i)
    \/ \E i \in 1..Len(reqs) : ProcessorFail(i, "checkout.session")
    \/ \E i \in 1..Len(reqs) : DraftResume(i)
    \/ \E k \in 1..Len(sessions) : CustomerPays(k)

SpecDraft == Init /\ [][NextDraft]_vars

(***************************************************************************)
(* The payment-intent revision of the server, src/server.js lines 1-83:    *)
(* POST /create-payment-intent, POST /verify-payment and GET /health, with *)
(* no check of the credential at startup, no 404 handler and no error      *)
(* handler.                                                                *)
(***************************************************************************)
IntentRoutes ==
    << [method |-> "POST", path |-> <<"create-payment-intent">>,
        handler |-> "create-payment-intent"],
       [method |-> "POST", path |-> <<"verify-payment">>, handler |-> "verify-payment"],
       [method |-> "GET", path |-> <<"health">>, handler |-> "health"] >>

\* req.body of the requests to this revision.
IntentBody(amount, currency, userId, planId, paymentIntentId) ==
    [amount |-> amount, currency |-> currency, userId |-> userId, planId |-> planId,
     paymentIntentId |-> paymentIntentId]

\* What a handler of this revision does with a request before its first
\* await (if any).  Express itself answers an error a middleware passes on
\* with the status of the error, 400, and a request no route takes with 404.
IntentHandle(in) ==
    LET h == DispatchOf(IntentRoutes, FALSE, in)
        done(res) == [res |-> res, call |-> NoCall]
    IN CASE h = "cors-preflight" -> done(CorsPreflight)
         [] h = "error-handler" ->
              done(Response(400, [page |-> MiddlewareErrorOf(IntentRoutes, FALSE, in)]))
         [] h = "health" -> done(Response(200, [status |-> "ok"]))
         [] h = "create-payment-intent" ->
              IF ~Truthy(in.body.amount) \/ ~Truthy(in.body.userId)
                 \/ ~Truthy(in.body.planId)
              THEN done(Response(400, [error |->
                          "Missing required fields: amount, userId, planId"]))
              ELSE IF CurrencyThrows(in.body)
              THEN done(Response(500, [error |-> CurrencyTypeError(in.body)]))
              ELSE [res |-> NoResponse,
                    call |-> [op |-> "create",
                              params |->
                                [amount |-> RoundTimesHundred(ToNumber(in.body.amount)),
                                 currency |-> ToLowerCase(CurrencyOf(in.body).s),
                                 metadata |-> [userId |-> in.body.userId,
                                               planId |-> in.body.planId,
                                               subscriptionType |-> Str(Monthly)],
                                 setup_future_usage |-> Null,
                                 automatic_payment_methods |-> [enabled |-> TRUE]]]]
         [] h = "verify-payment" ->
              IF ~Truthy(in.body.paymentIntentId)
              THEN done(Response(400, [error |-> "Missing paymentIntentId"]))
              ELSE [res |-> NoResponse,
                    call |-> [op |-> "retrieve", id |-> in.body.paymentIntentId]]
         [] h = "not-found" ->
              done(Response(404, [page |-> "Cannot " \o in.method \o " /"
                                           \o JoinPath(in.path)]))

\* The requests of the specification of this revision.
IntentRequests ==
    { Request("POST", <<"create-payment-intent">>, NoQuery,
              IntentBody(a, c, u, p, Undefined), Str(OriginUrl)) :
        a \in {Undefined, Num(1999, -2), Num(1005, -3), Num(-5, 0),
               Str(<<"a", "b", "c">>), Str(<<"1", "9", ".", "9", "9">>),
               Str(<<CharOfCode(160), "5">>)},
        c \in {Undefined, Str(<<"E", "U", "R">>), Str(<<CharOfCode(201), "U", "R">>), Null},
        u \in {Undefined, Str(U1)},
        p \in {Str(P1)} }
    \cup { Request("POST", <<"create-payment-intent">>, NoQuery,
                   IntentBody(Num(1999, -2), Undefined, Str(U1), p, Undefined),
                   Str(OriginUrl)) :
             p \in {Undefined, Str(<<>>)} }
    \cup { Request("POST", <<"verify-payment">>, NoQuery,
                   IntentBody(Undefined, Undefined, Undefined, Undefined, id),
                   Undefined) :
             id \in {Undefined, Str(<<>>), Str(<<"p", "i", "_", "1">>),
                     Str(<<"p", "i", "_", "9">>), Num(5, 0), Bool(TRUE)} }
    \cup { Request(m, p, NoQuery,
                   IntentBody(Undefined, Undefined, Undefined, Undefined, Undefined),
                   Undefined) :
             m \in {"GET", "HEAD", "OPTIONS"},
             p \in {<<"health">>, <<"verify-payment">>, <<>>, <<"health", "%zz">>} }
    \cup { MalformedRequest("POST", <<"create-payment-intent">>) }

\* Startup of this revision: no check of the credential.  Without one,
\* `Stripe(process.env.PRIVATE_KEY)` (line 8) either throws, which ends the
\* process, or returns a client whose every call fails, as the version of the
\* client library has it.
IntentStart ==
    /\ phase = "starting"
    /\ \/ phase' = "listening" /\ exitCode' = exitCode
       \/ ~Truthy(env.PRIVATE_KEY) /\ phase' = "exited" /\ exitCode' = 1
    /\ UNCHANGED <<env, reqs, sessions>>

\* A request arrives and its handler runs up to its response or its await.
IntentAccept(in, max) ==
    /\ phase = "listening"
    /\ Len(reqs) < max
    /\ LET out == IntentHandle(in)
           awaits == out.call # NoCall
       IN reqs' = Append(reqs, [in |-> in,
                                pc |-> IF awaits THEN "awaiting" ELSE "done",
                                calls |-> IF awaits THEN 1 ELSE 0,
                                call |-> out.call,
                                ret |-> NoReturn,
                                res |-> out.res])
    /\ UNCHANGED <<phase, exitCode, env, sessions>>

\* The handler resumes after its await and responds.
IntentResume(i) ==
    /\ reqs[i].pc = "returned"
    /\ reqs' = [reqs EXCEPT
                  ![i].pc = "done",
                  ![i].res =
                     IF ~reqs[i].ret.ok
                     THEN Response(500, [error |-> reqs[i].ret.error.message])
                     ELSE IF reqs[i].call.op = "create"
                     THEN Response(200,
                                   [clientSecret |-> reqs[i].ret.session.client_secret,
                                    paymentIntentId |-> reqs[i].ret.session.id])
                     ELSE Response(200,
                                   [status |-> reqs[i].ret.session.status,
                                    amount |-> DivHundred(reqs[i].ret.session.amount),
                                    metadata |-> reqs[i].ret.session.metadata])]
    /\ UNCHANGED <<phase, exitCode, env, sessions>>

NextIntent ==
    \/ IntentStart
    \/ \E in \in IntentRequests : IntentAccept(in, MaxIntentRequests)
    \* the processor carries out only a call made with a credential
    \/ \E i \in 1..Len(reqs) : Truthy(env.PRIVATE_KEY) /\ ProcessorCreate(i)
    \/ \E i \in 1..Len(reqs) : Truthy(env.PRIVATE_KEY) /\ ProcessorRetrieve(i)
    \/ \E i \in 1..Len(reqs) : ProcessorFail(i, "payment_intent")
    \/ \E i \in 1..Len(reqs) : IntentResume(i)
    \* the customer pays with the client secret
    \/ \E k \in 1..Len(sessions) :
         /\ sessions[k].status = "requires_payment_method"
         /\ sessions' = [sessions EXCEPT ![k].status = "succeeded"]
         /\ UNCHANGED <<phase, exitCode, env, reqs>>

SpecIntent == Init /\ [][NextIntent]_vars

(***************************************************************************)
(* Properties.                                                             *)
(***************************************************************************)
\* The requests whose method and path are those of a route with the given
\* handler.
IsRequestFor(r, handler) ==
    LET k == MatchedRouteOf(Routes, r.in.method, r.in.path)
    IN k # 0 /\ Routes[k].handler = handler

\* The requests to POST /create-checkout-session.
IsCreate(r) == IsRequestFor(r, "create-checkout-session")

\* The requests whose body is a JSON object (or absent).
HasFields(r) == r.in.parseError = ""

RequiredSet == {RequiredFields[i] : i \in 1..Len(RequiredFields)}

\* The required fields a body carries.
PresentFields(body) == {f \in RequiredSet : body[f] # Undefined}

\* C1: a creation request that lacks at least one of amount, userId, planId
\* and planName is answered 400 without any call to the processor, and the
\* response's "received" holds exactly the required fields the request
\* carried, with their values.
C1_MissingFieldsEchoed ==
    \A i \in 1..Len(reqs) :
        LET r == reqs[i]
            present == PresentFields(r.in.body)
        IN (IsCreate(r) /\ present # RequiredSet) =>
             /\ r.pc = "done"
             /\ r.res.status = 400
             /\ r.calls = 0
             /\ r.call = NoCall
             /\ "received" \in DOMAIN r.res.body
             /\ DOMAIN r.res.body.received = present
             /\ \A f \in present : r.res.body.received[f] = r.in.body[f]

\* A string that is a decimal numeral in its entirety: an optional sign,
\* digits, and at most one decimal point.
IsNumeral(s) ==
    LET start == IF s # <<>> /\ s[1] \in {"+", "-"} THEN 2 ELSE 1
    IN /\ \E i \in start..Len(s) : IsDigit(s[i])
       /\ \A i \in start..Len(s) : IsDigit(s[i]) \/ s[i] = "."
       /\ Cardinality({i \in start..Len(s) : s[i] = "."}) <= 1

\* An amount that is not a number: a boolean, or a string with a letter in it
\* (other than the e of an exponent).
NonNumeric(v) ==
    \/ v.t = "boolean"
    \/ v.t = "string" /\ \E i \in 1..Len(v.s) :
                            LowerChar(v.s[i]) \in
                                {<<CharOfCode(n)>> : n \in (97..122) \ {101}}

\* An amount that is a number, or a numeral, and is <= 0.
NonPositive(v) ==
    \/ v.t = "number" /\ LeqZero(v.num)
    \/ v.t = "string" /\ IsNumeral(v.s) /\ LeqZero(ParseFloatString(v.s))

OtherFieldsPresent(body) ==
    Truthy(body.userId) /\ Truthy(body.planId) /\ Truthy(body.planName)

\* C2: a creation request whose amount is <= 0 or not numeric ("12abc"
\* included), its other required fields present, is answered 400 and no
\* session is created at the processor.
C2_BadAmountRejected ==
    \A i \in 1..Len(reqs) :
        LET r == reqs[i]
        IN (/\ IsCreate(r)
            /\ HasFields(r)
            /\ OtherFieldsPresent(r.in.body)
            /\ r.in.body.amount # Undefined
            /\ NonPositive(r.in.body.amount) \/ NonNumeric(r.in.body.amount)) =>
             /\ ~r.ret.ok
             /\ r.pc = "done" => r.res.status = 400

\* A valid creation request: a positive number or numeral as amount, strings
\* as userId, planId and planName, and a string or nothing as currency.
IsValidCreate(r) ==
    LET b == r.in.body
    IN /\ IsCreate(r)
       /\ HasFields(r)
       /\ \/ b.amount.t = "number"
          \/ b.amount.t = "string" /\ IsNumeral(b.amount.s)
       /\ ~NonPositive(b.amount)
       /\ \A f \in {"userId", "planId", "planName"} : b[f].t = "string" /\ b[f].s # <<>>
       /\ b.currency = Undefined \/ (b.currency.t = "string" /\ b.currency.s # <<>>)

\* Whether the integer u is x * 100 rounded to a nearest integer.
IsTimesHundredRounded(u, x) ==
    /\ u.k = "fin" /\ u.e = 0 /\ ~u.neg
    /\ IF x.e + 2 >= 0 THEN u.m = x.m * Pow(10, x.e + 2)
       ELSE LET d == Pow(10, -(x.e + 2))
                diff == u.m * d - x.m
            IN 2 * diff <= d /\ -2 * diff <= d

\* Whether string low is string s in lower case: it is what toLowerCase
\* makes of s, none of its characters has a lower case mapping, and "USD" is
\* "usd" and U+00C9 "UR" is U+00E9 "ur".
IsLowerCaseOf(low, s) ==
    /\ low = ToLowerCase(s)
    /\ \A i \in 1..Len(low) : LowerCode(CodeOfChar(low[i])) = CodeOfChar(low[i])
    /\ s = <<"U", "S", "D">> => low = <<"u", "s", "d">>
    /\ s = <<CharOfCode(201), "U", "R">> => low = <<CharOfCode(233), "u", "r">>

\* C3: for a valid creation request the processor receives one line item of
\* quantity 1, priced at the amount times 100 rounded to an integer, in the
\* request's currency in lower case, or "usd" when the request names none;
\* 19.99 without a currency is 1999 "usd".
C3_LineItem ==
    \A i \in 1..Len(reqs) :
        LET r == reqs[i]
            b == r.in.body
        IN IsValidCreate(r) =>
             /\ r.call.op = "create"
             /\ r.calls = 1
             /\ Len(r.call.params.line_items) = 1
             /\ LET item == r.call.params.line_items[1]
                IN /\ item.quantity = 1
                   /\ IsTimesHundredRounded(item.price_data.unit_amount,
                                            ParseFloat(b.amount))
                   /\ IF b.currency = Undefined
                      THEN item.price_data.currency = <<"u", "s", "d">>
                      ELSE IsLowerCaseOf(item.price_data.currency, b.currency.s)
                   /\ (b.amount = Num(1999, -2) /\ b.currency = Undefined) =>
                        /\ item.price_data.unit_amount = Dec(1999, 0)
                        /\ item.price_data.currency = <<"u", "s", "d">>

\* The requests routed to GET /verify-session/:sessionId.
IsVerify(r) == IsRequestFor(r, "verify-session")

\* Request j created the session that request i verified with success.
VerifiedCreation(i, j) ==
    /\ IsVerify(reqs[i])
    /\ reqs[i].pc = "done"
    /\ reqs[i].res.status = 200
    /\ IsCreate(reqs[j])
    /\ reqs[j].ret.ok
    /\ reqs[j].ret.session.id = Join(SessionIdParam(reqs[i].in.path).s)

\* C4, as amended: a successful verification of a session that a creation
\* request created returns exactly the metadata the adapter set at creation:
\* the request's userId, planId and planName, and subscriptionType "monthly".
C4_MetadataRoundTrip ==
    \A i, j \in 1..Len(reqs) :
        VerifiedCreation(i, j) =>
            /\ reqs[i].res.body.metadata = reqs[j].call.params.metadata
            /\ reqs[i].res.body.metadata =
                 [userId |-> reqs[j].in.body.userId,
                  planId |-> reqs[j].in.body.planId,
                  planName |-> reqs[j].in.body.planName,
                  subscriptionType |-> Str(<<"m", "o", "n", "t", "h", "l", "y">>)]

\* C4, as stated: the verified metadata is exactly userId, planId and
\* planName, no key added.
C4_MetadataOnlyRequestFields ==
    \A i, j \in 1..Len(reqs) :
        VerifiedCreation(i, j) =>
            reqs[i].res.body.metadata =
                 [userId |-> reqs[j].in.body.userId,
                  planId |-> reqs[j].in.body.planId,
                  planName |-> reqs[j].in.body.planName]

\* A session created for u1, p1, Pro has been verified.
C4_Witness ==
    \E i, j \in 1..Len(reqs) :
        /\ VerifiedCreation(i, j)
        /\ reqs[j].in.body.userId = Str(<<"u", "1">>)
        /\ reqs[j].in.body.planId = Str(<<"p", "1">>)
        /\ reqs[j].in.body.planName = Str(<<"P", "r", "o">>)

\* C5: a verification request with an empty or missing session id
\* (GET /verify-session/ or GET /verify-session) is answered 400 without a
\* call to the processor.
C5_MissingSessionIdIs400 ==
    \A i \in 1..Len(reqs) :
        (/\ reqs[i].in.method = "GET"
         /\ StripTrailingSlash(reqs[i].in.path) = <<"verify-session">>) =>
            /\ reqs[i].calls = 0
            /\ reqs[i].res.status = 400

\* The processor call of request r has failed.
CallFailed(r) ==
    r.pc \in {"returned", "done"} /\ r.call.op # "none" /\ ~r.ret.ok

\* C6: a request makes at most one call to the processor, and a request
\* whose call failed ends with 500 carrying the processor's message and, for
\* a creation, the processor's error type and detail when it has them.
C6_FailureSurfacedOnce ==
    \A i \in 1..Len(reqs) :
        LET r == reqs[i]
        IN /\ r.calls <= 1
           /\ (CallFailed(r) /\ r.pc = "done") =>
                /\ r.res.status = 500
                /\ r.res.body.error = r.ret.error.message
                /\ r.call.op = "create" =>
                     /\ r.ret.error.type # "" => r.res.body.type = r.ret.error.type
                     /\ r.ret.error.raw # "" => r.res.body.details = r.ret.error.raw

\* A creation and a verification both ended after their one call failed.
C6_Witness ==
    \E i, j \in 1..Len(reqs) :
        /\ CallFailed(reqs[i]) /\ reqs[i].pc = "done" /\ reqs[i].call.op = "create"
        /\ reqs[i].ret.error.type # ""
        /\ CallFailed(reqs[j]) /\ reqs[j].pc = "done" /\ reqs[j].call.op = "retrieve"

\* C7: without the credential the process never listens and serves no
\* request, and when it has exited its exit code is not zero.
C7_NoCredentialNoService ==
    /\ env.PRIVATE_KEY = Undefined =>
         /\ phase \in {"starting", "exited"}
         /\ reqs = <<>>
    /\ phase = "exited" => exitCode # 0 /\ exitCode # -1

\* The process has exited for want of the credential.
C7_Witness ==
    phase = "exited" /\ env.PRIVATE_KEY = Undefined /\ exitCode = 1

\* The name of a route, as an endpoint list writes it.
RouteLabel(r) == r.method \o " /" \o JoinPath(r.path)

\* C8: a request that matches no route (CORS preflights aside) is answered
\* 404, a request that matches one is not, and the 404 body lists exactly the
\* routes of the route table: GET /, GET /health, GET /test,
\* POST /create-checkout-session, GET /verify-session/:sessionId,
\* GET /payment-success and GET /payment-cancel.
C8_NotFoundListsRoutes ==
    \A i \in 1..Len(reqs) :
        LET r == reqs[i]
            matched == MatchedRouteOf(Routes, r.in.method, r.in.path) # 0
        IN r.in.method # "OPTIONS" =>
             /\ matched <=> r.res.status # 404
             /\ r.res.status = 404 =>
                  LET listed == {r.res.body.availableEndpoints[n] :
                                   n \in 1..Len(r.res.body.availableEndpoints)}
                  IN /\ listed = {RouteLabel(Routes[k]) : k \in 1..Len(Routes)}
                     /\ listed = {"GET /", "GET /health", "GET /test",
                                  "POST /create-checkout-session",
                                  "GET /verify-session/:sessionId",
                                  "GET /payment-success", "GET /payment-cancel"}

\* A URL with a scheme: letters, "://", and something after.
WellFormedUrl(v) ==
    /\ v.t = "string"
    /\ \E n \in 2..Len(v.s) :
          /\ \A i \in 1..(n - 1) : CodeOfChar(v.s[i]) \in (65..90) \cup (97..122)
          /\ HasPrefixAt(v.s, n, <<":", "/", "/">>)
          /\ Len(v.s) > n + 2

\* C9: the success and cancel URLs sent to the processor are the client's
\* override when there is one, else the configured frontend base URL, else
\* the request's origin, with the path appended, and are well-formed URLs.
C9_UrlsWellFormed ==
    \A i \in 1..Len(reqs) :
        LET r == reqs[i]
            b == r.in.body
            base == IF Truthy(env.FRONTEND_URL) THEN env.FRONTEND_URL ELSE r.in.origin
        IN r.call.op = "create" =>
             /\ r.call.params.success_url =
                  (IF Truthy(b.successUrl) THEN b.successUrl
                   ELSE Str(base.s \o SuccessPath))
             /\ r.call.params.cancel_url =
                  (IF Truthy(b.cancelUrl) THEN b.cancelUrl
                   ELSE Str(base.s \o CancelPath))
             /\ WellFormedUrl(r.call.params.success_url)
             /\ WellFormedUrl(r.call.params.cancel_url)

\* The creations that succeeded at the processor.
SuccessfulCreates ==
    {i \in 1..Len(reqs) : reqs[i].call.op = "create" /\ reqs[i].ret.ok}

\* C10: under any interleaving, a step of a request either leaves the
\* processor's sessions as they are or is the success of one creation's call,
\* which appends exactly one session; the sessions are as many as the
\* successful creations.
C10_OnlyCreateChangesProcessor ==
    /\ [](Len(sessions) = Cardinality(SuccessfulCreates))
    /\ [][reqs' # reqs =>
            \/ sessions' = sessions
            \/ \E i \in 1..Len(reqs) :
                  /\ Len(reqs') = Len(reqs)
                  /\ IsCreate(reqs[i])
                  /\ reqs[i].pc = "awaiting"
                  /\ reqs'[i].ret.ok
                  /\ sessions' = Append(sessions, reqs'[i].ret.session)
                  /\ \A j \in 1..Len(reqs) : j # i => reqs'[j] = reqs[j]]_vars

\* A verification of session cs_1 has completed while the handler that
\* created cs_1 has not yet resumed.
C10_Witness ==
    \E i, j \in 1..Len(reqs) :
        /\ IsCreate(reqs[i]) /\ reqs[i].pc = "returned" /\ reqs[i].ret.ok
        /\ IsVerify(reqs[j]) /\ reqs[j].pc = "done" /\ reqs[j].res.status = 200
        /\ reqs[j].res.body.metadata = reqs[i].ret.session.metadata

\* x * 100 rounded half-up, for a positive decimal number x: the nearest
\* integer, a value halfway between two integers going to the greater.
HalfUpTimesHundred(x) ==
    IF x.e + 2 >= 0 THEN x.m * Pow(10, x.e + 2)
    ELSE LET d == Pow(10, -(x.e + 2))
         IN (2 * x.m + d) \div (2 * d)

\* C11: the minor units of a valid creation are its amount times 100, rounded
\* half-up (10.005 gives 1001), and a successful verification of the session
\* reports that same rounded value divided by 100.
C11_RoundHalfUp ==
    \A i \in 1..Len(reqs) :
        LET r == reqs[i]
            x == ParseFloat(r.in.body.amount)
            u == r.call.params.line_items[1].price_data.unit_amount
        IN (IsValidCreate(r) /\ r.call.op = "create") =>
             /\ u.k = "fin" /\ ~u.neg /\ u.e = 0
             /\ u.m = HalfUpTimesHundred(x)
             /\ r.in.body.amount = Num(10005, -3) => u.m = 1001
             /\ \A j \in 1..Len(reqs) :
                  VerifiedCreation(j, i) =>
                    reqs[j].res.body.amount =
                      Canonical(FALSE, HalfUpTimesHundred(x), -2)

\* C12: a creation request that has ended has exactly one of three outcomes:
\* 400 with no call to the processor, 200 with {id, url, success} after one
\* call that succeeded, or 500 after one call that failed; so no 500 answers
\* a request that made no call, whatever its body (a currency that is null or
\* not a string included).
C12_ThreeOutcomes ==
    \A i \in 1..Len(reqs) :
        LET r == reqs[i]
        IN (IsCreate(r) /\ r.pc = "done") =>
             \/ /\ r.res.status = 400
                /\ r.calls = 0 /\ r.call = NoCall
             \/ /\ r.res.status = 200
                /\ DOMAIN r.res.body = {"id", "url", "success"}
                /\ r.calls = 1 /\ r.ret.ok
             \/ /\ r.res.status = 500
                /\ r.calls = 1 /\ CallFailed(r)
====
